---- MODULE Spec2Model ----
(***************************************************************************)
(* contextgate: the stdio proxy's interception pipeline.                   *)
(*                                                                         *)
(* The model covers the two pumps of Proxy.pipeMessages, the interceptor   *)
(* chain, the policy engine, the PII scrubber (by its effect on the bytes) *)
(* and the approval manager with its per-ticket timeout goroutines.        *)
(***************************************************************************)
EXTENDS Integers, Sequences, FiniteSets, TLC

\* ------------------------------------------------------------------ bounds
\* Lines the two pumps read, in total, before their sources only report the
\* end of input.
MaxLines == 2
\* Lines the host sends while tools/list requests are tracked.
MaxTracked == 3
\* Messages requiring approval the two sources send in total.
MaxTickets == 2
\* Longest rule list the policy engine is evaluated on in SpecEval.
MaxRules == 3
\* Interceptors in a chain built from arbitrary interceptors.
MaxChain == 3
\* LogMessage calls on the store, and the store's sizes scaled down: the
\* capacity of writeCh (1024 in store.go) and the batch size (100).
MaxEntries == 4
bufferSize == 2
batchSize == 2
\* Publish calls on the event bus, and the subscribers' buffer size scaled
\* down (main.go creates the bus with 256).
MaxEvents == 3
bufSize == 2
\* Tools in one tools/list result.
MaxTools == 3
\* RegisterTools calls on the tool registry.
MaxRegisterCalls == 3
\* Messages handed to the redactor, and PII matches in one message.
MaxScrubCalls == 3
MaxMatches == 2

\* --------------------------------------------------------------- constants
DirHostToServer == "host_to_server"
DirServerToHost == "server_to_host"
Directions == {DirHostToServer, DirServerToHost}

ActionDeny == "deny"
ActionRequireApproval == "require_approval"
ActionAudit == "audit"
ActionNone == ""

DecisionPending == "pending"
DecisionApproved == "approved"
DecisionDenied == "denied"
DecisionTimeout == "timeout"

\* JSON-RPC error code of a synthesized block error.
InvalidRequest == -32600

\* json.RawMessage(nil): the id field was absent from the message.
NoID == "nil"

VARIABLES
    rules,          \* Engine.config.Rules
    scrubEnabled,   \* ScrubberInterceptor.enabled
    now,            \* the last reading of time.Now() by the approval manager
    cancelled,      \* the Run scope's context is done
    pump,           \* per direction: position of pipeMessages
    inLog,          \* per direction: the lines the scanner has returned so far
    cur,            \* per direction: the message inside chain.Process
    childStdin,     \* what has been written to p.downStdin
    hostStdout,     \* what has been written to os.Stdout
    pending,        \* ApprovalManager.pending (ids)
    nextID,         \* ApprovalManager.nextID
    tickets,        \* every ApprovalRequest ever submitted, by id
    outcome,        \* per direction: what became of each line of inLog
    lastAppr,       \* per direction: the most recent ApprovalInterceptor call
    evIn,           \* arguments of an Engine.Evaluate call
    evOut,          \* its MatchResult
    logged,         \* per direction: the entries LoggingInterceptor submitted
    chainRun,       \* one InterceptorChain.Process call on any interceptors
    life,           \* main and Proxy.Run: the process from start to exit
    store,          \* SQLiteStore: writeCh, the writer's batch, what was flushed
    bus,            \* EventBus: the subscribers' channels
    ta,             \* ToolAnalyticsInterceptor: pendingIDs and its last call
    registry,       \* the tool_registry table
    scrubber,       \* ScrubberInterceptor: totalScrubbed and its calls
    downStdin       \* p.downStdin: "open" until the host pump's goroutine closes it

vars == <<rules, scrubEnabled, now, cancelled, pump, inLog, cur,
          childStdin, hostStdout, pending, nextID, tickets,
          outcome, lastAppr, evIn, evOut, logged, chainRun, life, store, bus,
          ta, registry, scrubber, downStdin>>

proxyVars == <<pump, inLog, cur, childStdin, hostStdout, outcome, lastAppr,
               logged>>
sideVars == <<ta, registry, scrubber>>
compVars == <<chainRun, life, store, bus, sideVars, downStdin>>
approvalVars == <<pending, nextID, tickets>>
configVars == <<rules, scrubEnabled>>
evalVars == <<evIn, evOut>>

\* ------------------------------------------------------------ input lines
\* A line is what bufio.Scanner hands to the pump: the bytes between two
\* end-of-line markers.  body: "empty" (zero bytes), "garbage" (bytes that
\* json.Unmarshal rejects) or "object" (a JSON object).  For an object the
\* record carries the fields the pipeline reads: id, method, params.name
\* (tool), the number of PII matches in its string leaves (pii), how many
\* were already replaced by a redaction marker (red), whether the bytes
\* already have the layout json.Marshal produces (canon), and the policy
\* patterns its text matches (marks).
Line(body, id, method, tool, pii, canon) ==
    [body |-> body, id |-> id, method |-> method, tool |-> tool,
     pii |-> pii, red |-> 0, canon |-> canon, marks |-> {}]

EmptyLine == Line("empty", NoID, "", "", 0, TRUE)
GarbageLine == Line("garbage", NoID, "", "", 0, FALSE)
Request(id, method, tool) == Line("object", id, method, tool, 0, TRUE)
Notification(method, tool) == Line("object", NoID, method, tool, 0, TRUE)
Response(id, pii, canon) == Line("object", id, "", "", pii, canon)

HostLines ==
    { EmptyLine, GarbageLine,
      Request("1", "tools/call", "execute_command"),
      Notification("tools/call", "execute_command"),
      Request("2", "tools/call", "delete_file") }

ServerLines ==
    { [GarbageLine EXCEPT !.pii = 1],
      Response("2", 0, TRUE),
      Response("1", 1, FALSE),
      Request("7", "tools/call", "delete_file") }

InputLines(d) == IF d = DirHostToServer THEN HostLines ELSE ServerLines

\* The traffic that reaches the approval interceptor's wait, and a call the
\* policy denies.
ApprovalTraffic(d) ==
    IF d = DirHostToServer
    THEN { Request("2", "tools/call", "delete_file"),
           Notification("tools/call", "execute_command") }
    ELSE { Request("7", "tools/call", "delete_file") }

\* ---------------------------------------------------------- message codec
ZeroMessage == [ID |-> NoID, Method |-> "", Params |-> [name |-> ""]]

\* ParseMessage: json.Unmarshal into JSONRPCMessage.  Bytes that are not a
\* JSON object yield an error and the zero message; of an object only the
\* classified fields survive.
ParseMessage(raw) ==
    IF raw.body = "object"
    THEN [err |-> FALSE,
          msg |-> [ID |-> raw.id, Method |-> raw.method,
                   Params |-> [name |-> raw.tool]]]
    ELSE [err |-> TRUE, msg |-> ZeroMessage]

\* MakeErrorResponse: {"jsonrpc":"2.0","id":<id>,"error":{code, message}}.
MakeErrorResponse(id, code, message) ==
    [body |-> "error_response", id |-> id, code |-> code, message |-> message]

\* ExtractToolName: params.name, or "" when absent.
ExtractToolName(params) == params.name

\* ----------------------------------------------------------- policy engine
Rule(name, action, direction, methods, tools, patterns) ==
    [name |-> name, action |-> action, direction |-> direction,
     methods |-> methods, tools |-> tools, patterns |-> patterns]

ZeroResult ==
    [Action |-> ActionNone, MatchedRules |-> <<>>,
     DenyRule |-> "", ApprovalRule |-> ""]

\* regexp.MatchString on the payload: the payload carries the set of rule
\* patterns its text matches.
PatternMatches(p, payload) == p \in payload.marks

\* ruleMatches without the direction test.
ruleMatchesAnyDirection(rule, direction, method, toolName, payload) ==
    /\ ~(rule.methods # {} /\ method \notin rule.methods)
    /\ ~(rule.tools # {} /\ (toolName = "" \/ toolName \notin rule.tools))
    /\ \A p \in rule.patterns : PatternMatches(p, payload)

ruleMatches(rule, direction, method, toolName, payload) ==
    /\ ~(rule.direction # "" /\ rule.direction # direction)
    /\ ~(rule.methods # {} /\ method \notin rule.methods)
    /\ ~(rule.tools # {} /\ (toolName = "" \/ toolName \notin rule.tools))
    /\ \A p \in rule.patterns : PatternMatches(p, payload)

\* A copy of the require_approval guard in the audit case.
ApplyActionAuditOverrides(result, rule) ==
    CASE rule.action = ActionDeny ->
            IF result.Action # ActionDeny
            THEN [result EXCEPT !.Action = ActionDeny, !.DenyRule = rule.name]
            ELSE result
      [] rule.action = ActionRequireApproval ->
            IF result.Action # ActionDeny
            THEN [result EXCEPT !.Action = ActionRequireApproval,
                                !.ApprovalRule = rule.name]
            ELSE result
      [] rule.action = ActionAudit ->
            IF result.Action # ActionDeny
            THEN [result EXCEPT !.Action = ActionAudit]
            ELSE result
      [] OTHER -> result

\* The switch on rule.Action inside Evaluate's loop.
ApplyAction(result, rule) ==
    CASE rule.action = ActionDeny ->
            IF result.Action # ActionDeny
            THEN [result EXCEPT !.Action = ActionDeny, !.DenyRule = rule.name]
            ELSE result
      [] rule.action = ActionRequireApproval ->
            IF result.Action # ActionDeny
            THEN [result EXCEPT !.Action = ActionRequireApproval,
                                !.ApprovalRule = rule.name]
            ELSE result
      [] rule.action = ActionAudit ->
            IF result.Action = ActionNone
            THEN [result EXCEPT !.Action = ActionAudit]
            ELSE result
      [] OTHER -> result

\* One iteration of Evaluate's loop.
EvaluateRule(result, rule, direction, method, toolName, payload) ==
    IF ~ruleMatches(rule, direction, method, toolName, payload)
    THEN result
    ELSE ApplyAction([result EXCEPT !.MatchedRules = Append(@, rule.name)], rule)

Evaluate(ruleList, direction, method, toolName, payload) ==
    LET run[i \in 0..Len(ruleList)] ==
            IF i = 0 THEN ZeroResult
            ELSE EvaluateRule(run[i - 1], ruleList[i],
                              direction, method, toolName, payload)
    IN run[Len(ruleList)]

\* Rules of the repository's tests (block-shell for the tool the proxy
\* tests call), and a require_approval rule for every tools/call.
RulePool ==
    { Rule("audit-all", ActionAudit, "", {"tools/call"}, {}, {}),
      Rule("approve-delete", ActionRequireApproval, "",
           {"tools/call"}, {"delete_file"}, {}),
      Rule("approve-calls", ActionRequireApproval, "", {"tools/call"}, {}, {}),
      Rule("block-delete", ActionDeny, "", {"tools/call"}, {"delete_file"}, {}),
      Rule("block-shell", ActionDeny, "",
           {"tools/call"}, {"execute_command"}, {}),
      Rule("server-only", ActionAudit, DirServerToHost, {"tools/call"}, {}, {}),
      Rule("block-env", ActionDeny, "",
           {"tools/call"}, {"write_file"}, {"\\.env"}) }

RuleByName(n) == CHOOSE r \in RulePool : r.name = n

\* The rule list the proxy runs with.
DefaultRules ==
    << RuleByName("audit-all"), RuleByName("approve-delete"),
       RuleByName("block-shell") >>

RuleLists ==
    { s \in UNION { [1..n -> RulePool] : n \in 0..MaxRules } :
        \A i, j \in DOMAIN s : i # j => s[i] # s[j] }

EvalInputs ==
    [direction : Directions,
     method : {"tools/call", "tools/list"},
     toolName : {"", "delete_file", "execute_command", "write_file"},
     payload : [marks : SUBSET {"\\.env"}]]

NoEval == [done |-> FALSE, result |-> ZeroResult]

\* A caller invokes Engine.Evaluate.
EvaluateCall ==
    /\ ~evOut.done
    /\ evOut' = [done |-> TRUE,
                 result |-> Evaluate(rules, evIn.direction, evIn.method,
                                     evIn.toolName, evIn.payload)]
    /\ UNCHANGED <<compVars, configVars, now, cancelled, proxyVars, approvalVars, evIn>>

\* ------------------------------------------------------------ interceptors
MetaKeyPolicyAction == "policy_action"
MetaKeyPolicyRule == "policy_rule"
MetaKeyMatchedRules == "matched_rules"
MetaKeyAudit == "audit"
MetaKeyScrubCount == "scrub_count"

\* A nil map[string]any.
NilMeta == [k \in {} |-> ""]

MetaSet(meta, key, value) ==
    [k \in DOMAIN meta \cup {key} |-> IF k = key THEN value ELSE meta[k]]

\* msg.Metadata[key].(string), "" when the key is absent.
MetaNumber(meta, key) == IF key \in DOMAIN meta THEN meta[key] ELSE 0

MetaString(meta, key) == IF key \in DOMAIN meta THEN meta[key] ELSE ""

NoErr == [why |-> "", rule |-> ""]
Err(why, rule) == [why |-> why, rule |-> rule]

\* What Intercept returns: out is <<>> for nil bytes and <<b>> for bytes b;
\* meta is msg.Metadata as the call leaves it.
Returns(out, err, meta) == [out |-> out, err |-> err, meta |-> meta]

InterceptedMessage(dir, raw) ==
    LET p == ParseMessage(raw)
    IN [Direction |-> dir, RawBytes |-> raw, Parsed |-> p.msg,
        ParseErr |-> p.err, Metadata |-> NilMeta]

PolicyIntercept(msg) ==
    IF msg.ParseErr THEN Returns(<<msg.RawBytes>>, NoErr, msg.Metadata)
    ELSE
    LET toolName == IF msg.Parsed.Method = "tools/call"
                    THEN ExtractToolName(msg.Parsed.Params) ELSE ""
        result == Evaluate(rules, msg.Direction, msg.Parsed.Method,
                           toolName, msg.RawBytes)
        m1 == MetaSet(msg.Metadata, MetaKeyMatchedRules, result.MatchedRules)
    IN IF Len(result.MatchedRules) = 0
       THEN Returns(<<msg.RawBytes>>, NoErr, msg.Metadata)
       ELSE CASE result.Action = ActionDeny ->
                   Returns(<<>>, Err("blocked by policy rule", result.DenyRule),
                           MetaSet(MetaSet(m1, MetaKeyPolicyAction, ActionDeny),
                                   MetaKeyPolicyRule, result.DenyRule))
              [] result.Action = ActionRequireApproval ->
                   Returns(<<msg.RawBytes>>, NoErr,
                           MetaSet(MetaSet(m1, MetaKeyPolicyAction,
                                           ActionRequireApproval),
                                   MetaKeyPolicyRule, result.ApprovalRule))
              [] result.Action = ActionAudit ->
                   Returns(<<msg.RawBytes>>, NoErr,
                           MetaSet(MetaSet(m1, MetaKeyPolicyAction, ActionAudit),
                                   MetaKeyAudit, TRUE))
              [] OTHER -> Returns(<<msg.RawBytes>>, NoErr, m1)

\* scrubJSON: every PII match in a string leaf becomes a redaction marker.
\* A JSON value is re-serialized by json.Marshal, which fixes the layout;
\* bytes that are not JSON are scrubbed as one string, layout untouched.
scrubJSON(raw) ==
    [bytes |-> [raw EXCEPT !.pii = 0, !.red = raw.red + raw.pii,
                           !.canon = (raw.body = "object") \/ raw.canon],
     count |-> raw.pii]

\* The redactor works on both directions.
ScrubberInterceptBothWays(msg) ==
    IF ~scrubEnabled THEN Returns(<<msg.RawBytes>>, NoErr, msg.Metadata)
    ELSE LET sc == scrubJSON(msg.RawBytes)
         IN Returns(<<sc.bytes>>, NoErr,
                    IF sc.count > 0
                    THEN MetaSet(msg.Metadata, MetaKeyScrubCount, sc.count)
                    ELSE msg.Metadata)

ScrubberIntercept(msg) ==
    IF ~scrubEnabled THEN Returns(<<msg.RawBytes>>, NoErr, msg.Metadata)
    ELSE IF msg.Direction # DirServerToHost
    THEN Returns(<<msg.RawBytes>>, NoErr, msg.Metadata)
    ELSE LET s == scrubJSON(msg.RawBytes)
         IN Returns(<<s.bytes>>, NoErr,
                    IF s.count > 0
                    THEN MetaSet(msg.Metadata, MetaKeyScrubCount, s.count)
                    ELSE msg.Metadata)

\* ApprovalInterceptor.Intercept up to its decision to submit a ticket.
NeedsApproval(msg) ==
    /\ msg.Metadata # NilMeta
    /\ MetaString(msg.Metadata, MetaKeyPolicyAction) = ActionRequireApproval

\* The switch treats a timeout like an approval.
DecisionResultFailOpen(decision, msg) ==
    LET ruleName == MetaString(msg.Metadata, MetaKeyPolicyRule)
    IN CASE decision \in {DecisionApproved, DecisionTimeout} ->
              Returns(<<msg.RawBytes>>, NoErr, msg.Metadata)
         [] decision = DecisionDenied ->
              Returns(<<>>, Err("denied by human review", ruleName), msg.Metadata)
         [] OTHER ->
              Returns(<<>>, Err("unexpected approval decision", ""), msg.Metadata)

\* The switch on the decision received from the ticket's channel.
DecisionResult(decision, msg) ==
    LET ruleName == MetaString(msg.Metadata, MetaKeyPolicyRule)
    IN CASE decision = DecisionApproved ->
              Returns(<<msg.RawBytes>>, NoErr, msg.Metadata)
         [] decision = DecisionDenied ->
              Returns(<<>>, Err("denied by human review", ruleName), msg.Metadata)
         [] decision = DecisionTimeout ->
              Returns(<<>>, Err("approval timed out", ruleName), msg.Metadata)
         [] OTHER ->
              Returns(<<>>, Err("unexpected approval decision", ""), msg.Metadata)

\* The ctx.Done() case of the interceptor's select.
CancelResult(msg) ==
    Returns(<<>>, Err("context cancelled while awaiting approval", ""),
            msg.Metadata)

\* Tool analytics and logging hand the bytes on unchanged for the traffic
\* of this model (no tools/list result is pruned here).
ToolAnalyticsIntercept(msg) == Returns(<<msg.RawBytes>>, NoErr, msg.Metadata)

\* len(b) for the bytes of a line: a redaction marker is shorter than the
\* match it replaces, and json.Marshal's layout has no insignificant
\* whitespace.
ByteLen(raw) ==
    IF raw.body = "empty" THEN 0
    ELSE 40 + (9 * raw.pii) + (5 * raw.red) + (IF raw.canon THEN 0 ELSE 2)

\* The store.LogEntry that LoggingInterceptor.Intercept builds.  Nothing
\* assigns Blocked, which keeps its zero value.
LogEntry(msg) ==
    [Direction |-> msg.Direction, Method |-> msg.Parsed.Method,
     MsgID |-> msg.Parsed.ID, Payload |-> msg.RawBytes,
     SizeBytes |-> ByteLen(msg.RawBytes), Blocked |-> FALSE,
     Audit |-> (MetaKeyAudit \in DOMAIN msg.Metadata),
     PolicyAction |-> MetaString(msg.Metadata, MetaKeyPolicyAction)]

LoggingIntercept(msg) == Returns(<<msg.RawBytes>>, NoErr, msg.Metadata)

\* main appends the logging interceptor before the scrubber.
ChainLoggerFirst == <<"policy", "logging", "scrubber", "approval", "tools">>

\* The order in which main builds the chain.
Chain == <<"policy", "scrubber", "approval", "tools", "logging">>

Intercept(name, msg) ==
    CASE name = "policy" -> PolicyIntercept(msg)
      [] name = "scrubber" -> ScrubberIntercept(msg)
      [] name = "approval" -> Returns(<<msg.RawBytes>>, NoErr, msg.Metadata)
      [] name = "tools" -> ToolAnalyticsIntercept(msg)
      [] name = "logging" -> LoggingIntercept(msg)

\* A record of one ApprovalInterceptor.Intercept call.
NoCall == [called |-> FALSE]
ApprovalCall(msg, ticket, via, decision, ret) ==
    [called |-> TRUE, in |-> msg.RawBytes,
     action |-> MetaString(msg.Metadata, MetaKeyPolicyAction),
     rule |-> MetaString(msg.Metadata, MetaKeyPolicyRule),
     ticket |-> ticket, via |-> via, decision |-> decision,
     out |-> ret.out, err |-> ret.err]

\* InterceptorChain.Process from interceptor i on.  status: "forward" (all
\* interceptors returned bytes), "blocked", "dropped", or "wait" (the
\* approval interceptor has to submit a ticket and block).  rewrites counts
\* the interceptors that returned other bytes than they were given, appr is
\* the approval interceptor's call if it ran to completion.
RECURSIVE Process(_, _, _, _, _, _)
Process(msg, raw, i, rewrites, appr, logs) ==
    LET m == [msg EXCEPT !.RawBytes = raw]
    IN IF i > Len(Chain)
       THEN [status |-> "forward", out |-> raw, err |-> NoErr, msg |-> m,
             at |-> i, rewrites |-> rewrites, appr |-> appr, logs |-> logs]
       ELSE IF Chain[i] = "approval" /\ NeedsApproval(m)
       THEN [status |-> "wait", out |-> raw, err |-> NoErr, msg |-> m,
             at |-> i, rewrites |-> rewrites, appr |-> appr, logs |-> logs]
       ELSE LET r == Intercept(Chain[i], m)
                m2 == [m EXCEPT !.Metadata = r.meta]
                a2 == IF Chain[i] = "approval"
                      THEN ApprovalCall(m, 0, "pass", DecisionPending, r)
                      ELSE appr
                l2 == IF Chain[i] = "logging"
                      THEN Append(logs, LogEntry(m)) ELSE logs
            IN IF r.err # NoErr
               THEN [status |-> "blocked", out |-> raw, err |-> r.err,
                     msg |-> m2, at |-> i, rewrites |-> rewrites, appr |-> a2,
                     logs |-> l2]
               ELSE IF r.out = <<>>
               THEN [status |-> "dropped", out |-> raw, err |-> NoErr,
                     msg |-> m2, at |-> i, rewrites |-> rewrites, appr |-> a2,
                     logs |-> l2]
               ELSE Process(m2, r.out[1], i + 1,
                            rewrites + (IF r.out[1] # raw THEN 1 ELSE 0), a2, l2)

\* -------------------------------------------------------- approval manager
\* Capacity of ApprovalRequest.done.
DoneCap == 1

\* select { case req.done <- decision: default: }
TrySend(ch, v) == IF Len(ch) < DoneCap THEN Append(ch, v) ELSE ch

\* The ticket Submit stores: the request's fields, the state of its timeout
\* goroutine (timer: "armed" until the goroutine has run) and counters of what happened to it (sends and
\* drops on done, successful Resolve calls, timer expiries that found it).
NewTicket(id, msg) ==
    [ID |-> id, Direction |-> msg.Direction, Method |-> msg.Parsed.Method,
     ToolName |-> IF msg.Parsed.Method = "tools/call"
                  THEN ExtractToolName(msg.Parsed.Params) ELSE "",
     RuleName |-> MetaString(msg.Metadata, MetaKeyPolicyRule),
     Payload |-> msg.RawBytes,
     Decision |-> DecisionPending, DecidedAt |-> -1, done |-> <<>>,
     timer |-> "armed",
     sends |-> 0, drops |-> 0, resolved |-> 0, expired |-> 0]

\* Set the decision and decided_at and deliver on the channel.  time.Now()
\* reads later than every earlier reading.
Decide(t, decision) ==
    [t EXCEPT !.Decision = decision, !.DecidedAt = now + 1,
              !.done = TrySend(@, decision),
              !.sends = @ + (IF Len(t.done) < DoneCap THEN 1 ELSE 0),
              !.drops = @ + (IF Len(t.done) < DoneCap THEN 0 ELSE 1)]

\* Resolve looks the id up among every request ever submitted.
ResolveFindsAnySubmitted(id) == id \in DOMAIN tickets

\* req, exists := am.pending[id] in Resolve.
ResolveFinds(id) == id \in pending

\* The timeout goroutine does not re-check am.pending.
TimerFindsAlways(id) == TRUE

\* The timeout goroutine tests !exists.
TimerFindsInverted(id) == id \notin pending

\* _, exists := am.pending[req.ID] in the timeout goroutine.
TimerFinds(id) == id \in pending

\* What ApprovalManager.Resolve(id, _) returns.
ResolveReturn(id) == IF ResolveFinds(id) THEN "nil" ELSE "not found"

\* ApprovalManager.Resolve(id, approved), called by the dashboard.
Resolve(id, approved) ==
    /\ id \in 1..(nextID + 1)
    /\ IF ResolveFinds(id)
       THEN /\ tickets' = [tickets EXCEPT ![id] =
                    [Decide(@, IF approved THEN DecisionApproved
                                            ELSE DecisionDenied)
                        EXCEPT !.resolved = @ + 1]]
            /\ pending' = pending \ {id}
            /\ now' = now + 1
       ELSE UNCHANGED <<tickets, pending, now>>
    /\ UNCHANGED <<compVars, configVars, cancelled, proxyVars, nextID, evalVars>>

\* A ticket's timeout goroutine, from <-timer.C on.  The timer fires after
\* am.timeout; when the goroutine then runs relative to the other
\* goroutines is up to the scheduler.
TimerFire(id) ==
    /\ id \in DOMAIN tickets
    /\ tickets[id].timer = "armed"
    /\ IF TimerFinds(id)
       THEN /\ tickets' = [tickets EXCEPT ![id] =
                    [Decide(@, DecisionTimeout)
                        EXCEPT !.timer = "done", !.expired = @ + 1]]
            /\ pending' = pending \ {id}
            /\ now' = now + 1
       ELSE /\ tickets' = [tickets EXCEPT ![id].timer = "done"]
            /\ UNCHANGED <<pending, now>>
    /\ UNCHANGED <<compVars, configVars, cancelled, proxyVars, nextID, evalVars>>

\* The scope of Run is cancelled (signal, or the subprocess has exited).
Cancel ==
    /\ ~cancelled
    /\ cancelled' = TRUE
    /\ UNCHANGED <<compVars, configVars, now, proxyVars, approvalVars, evalVars>>

\* -------------------------------------------------------------------- pumps
FarSide(d) == IF d = DirHostToServer THEN "child" ELSE "host"
NearSide(d) == IF d = DirHostToServer THEN "host" ELSE "child"

\* One Write call: the bytes, the newline appended to them, and which line
\* of which pump caused it.
Entry(bytes, d, idx) == [bytes |-> bytes, nl |-> 1, by |-> d, idx |-> idx]

\* sendBlockError without the check for a nil id.
sendBlockErrorAlways(dir, msg, chainErr) ==
    << [to |-> NearSide(dir),
        bytes |-> MakeErrorResponse(msg.Parsed.ID, InvalidRequest, chainErr)] >>

\* sendBlockError: the writes it performs.
sendBlockError(dir, msg, chainErr) ==
    IF msg.Parsed.ID = NoID THEN <<>>
    ELSE << [to |-> NearSide(dir),
             bytes |-> MakeErrorResponse(msg.Parsed.ID, InvalidRequest,
                                         chainErr)] >>

\* The parse-failure branch without its continue: the line is written and
\* then written again at the end of the loop body.
UnparseableWritesTwice(d, raw) ==
    << [to |-> FarSide(d), bytes |-> raw], [to |-> FarSide(d), bytes |-> raw] >>

\* The parse-failure branch drops the line.
UnparseableDropped(d, raw) == <<>>

\* The parse-failure branch of pipeMessages: dst.Write(append(raw, '\n')).
UnparseableWrites(d, raw) == << [to |-> FarSide(d), bytes |-> raw] >>

\* The end of the loop body drops the trailing newline.
ForwardNoNewline(stream, to, writes, d, idx) ==
    stream \o [i \in 1..Len(SelectSeq(writes, LAMBDA w : w.to = to)) |->
                 [Entry(SelectSeq(writes, LAMBDA w : w.to = to)[i].bytes, d, idx)
                     EXCEPT !.nl = 0]]

\* The stream `to` after the Write calls of `writes` addressed to it.
Written(stream, to, writes, d, idx) ==
    stream \o [i \in 1..Len(SelectSeq(writes, LAMBDA w : w.to = to)) |->
                 Entry(SelectSeq(writes, LAMBDA w : w.to = to)[i].bytes, d, idx)]

\* p.downStdin after the Write calls of `writes` addressed to it: a Write
\* after Close fails and writes nothing.
WrittenToChild(stream, writes, d, idx) ==
    IF downStdin = "closed" THEN stream
    ELSE Written(stream, "child", writes, d, idx)

\* What pipeMessages does with the result of chain.Process.
ResultWrites(d, st) ==
    CASE st.status = "blocked" -> sendBlockError(d, st.msg, st.err)
      [] st.status = "dropped" -> <<>>
      [] OTHER -> << [to |-> FarSide(d), bytes |-> st.out] >>

\* The entries one loop iteration submitted, with the line that caused them.
Submitted(log, entries, idx) ==
    log \o [i \in 1..Len(entries) |-> [entry |-> entries[i], idx |-> idx]]

Idle == [busy |-> FALSE]

Outcome(res, rewrites) == [res |-> res, rewrites |-> rewrites]

\* The pump goes on to its next line while the ticket it submitted is
\* undecided.
AfterLineNeverWaits(aborted, submit) ==
    IF aborted THEN "returned" ELSE "scan"

\* Where pipeMessages is after a line: it has returned ctx.Err(), it is
\* inside ApprovalInterceptor.Intercept at the select that follows Submit, or
\* it is back at scanner.Scan().
AfterLine(aborted, submit) ==
    IF aborted THEN "returned" ELSE IF submit THEN "await" ELSE "scan"

\* One iteration of pipeMessages' loop on a line the scanner returns, up to
\* the end of the iteration or to the approval interceptor's wait; the
\* source delivers one of `lines`.
PumpRead(d, lines) ==
    /\ pump[d] = "scan"
    /\ Len(inLog[DirHostToServer]) + Len(inLog[DirServerToHost]) < MaxLines
    /\ \E line \in lines :
        LET idx == Len(inLog[d]) + 1
            msg == InterceptedMessage(d, line)
            st == Process(msg, line, 1, 0, NoCall, <<>>)
            submit == ~cancelled /\ line.body # "empty" /\ ~msg.ParseErr
                      /\ st.status = "wait"
            writes == IF cancelled \/ line.body = "empty" THEN <<>>
                      ELSE IF msg.ParseErr THEN UnparseableWrites(d, line)
                      ELSE IF st.status = "wait" THEN <<>>
                      ELSE ResultWrites(d, st)
            res == IF cancelled THEN Outcome("aborted", 0)
                   ELSE IF line.body = "empty" THEN Outcome("empty", 0)
                   ELSE IF msg.ParseErr THEN Outcome("unparsed", 0)
                   ELSE IF st.status = "wait" THEN Outcome("waiting", st.rewrites)
                   ELSE Outcome(st.status, st.rewrites)
            logs == IF cancelled \/ line.body = "empty" \/ msg.ParseErr
                    THEN <<>> ELSE st.logs
        IN /\ submit => nextID < MaxTickets
           /\ logged' = [logged EXCEPT ![d] = Submitted(@, logs, idx)]
           /\ inLog' = [inLog EXCEPT ![d] = Append(@, line)]
           /\ outcome' = [outcome EXCEPT ![d] = Append(@, res)]
           /\ childStdin' = WrittenToChild(childStdin, writes, d, idx)
           /\ hostStdout' = Written(hostStdout, "host", writes, d, idx)
           /\ pump' = [pump EXCEPT ![d] = AfterLine(cancelled, submit)]
           /\ IF submit
              THEN /\ nextID' = nextID + 1
                   /\ tickets' = Append(tickets, NewTicket(nextID + 1, st.msg))
                   /\ pending' = pending \cup {nextID + 1}
                   /\ cur' = [cur EXCEPT ![d] =
                                 [busy |-> TRUE, idx |-> idx, st |-> st,
                                  ticket |-> nextID + 1]]
                   /\ UNCHANGED lastAppr
              ELSE /\ UNCHANGED <<nextID, tickets, pending, cur>>
                   /\ lastAppr' = [lastAppr EXCEPT ![d] =
                          IF ~cancelled /\ line.body # "empty" /\ ~msg.ParseErr
                             /\ st.appr.called
                          THEN st.appr ELSE @]
    /\ UNCHANGED <<compVars, configVars, now, cancelled, evalVars>>

PumpScan(d) == PumpRead(d, InputLines(d))

\* scanner.Scan() reports the end of the source.
PumpEOF(d) ==
    /\ pump[d] = "scan"
    /\ pump' = [pump EXCEPT ![d] = "returned"]
    /\ UNCHANGED <<compVars, configVars, now, cancelled, inLog, logged, cur, childStdin,
                   hostStdout, outcome, lastAppr, approvalVars, evalVars>>

\* p.downStdin.Close() in the host pump's goroutine, after its pipeMessages
\* has returned.
CloseDownStdin ==
    /\ pump[DirHostToServer] = "returned"
    /\ downStdin = "open"
    /\ downStdin' = "closed"
    /\ UNCHANGED <<configVars, now, cancelled, proxyVars, approvalVars,
                   evalVars, chainRun, life, store, bus, sideVars>>

\* The approval interceptor's select has returned `ret` for the message in
\* cur[d]: the rest of chain.Process and of the loop body.
Resume(d, ret, via, decision) ==
    LET c == cur[d]
        m == c.st.msg
        call == ApprovalCall(m, c.ticket, via, decision, ret)
        st == IF ret.err # NoErr
              THEN [c.st EXCEPT !.status = "blocked", !.err = ret.err]
              ELSE Process(m, ret.out[1], c.st.at + 1, c.st.rewrites, call,
                           c.st.logs)
        writes == ResultWrites(d, st)
    IN /\ logged' = [logged EXCEPT ![d] =
                        Submitted(@, SubSeq(st.logs, Len(c.st.logs) + 1,
                                            Len(st.logs)), c.idx)]
       /\ childStdin' = WrittenToChild(childStdin, writes, d, c.idx)
       /\ hostStdout' = Written(hostStdout, "host", writes, d, c.idx)
       /\ outcome' = [outcome EXCEPT ![d][c.idx] =
                         Outcome(st.status, st.rewrites)]
       /\ lastAppr' = [lastAppr EXCEPT ![d] = call]
       /\ cur' = [cur EXCEPT ![d] = Idle]
       /\ pump' = [pump EXCEPT ![d] = "scan"]

\* case decision := <-ch
PumpDecision(d) ==
    /\ pump[d] = "await"
    /\ tickets[cur[d].ticket].done # <<>>
    /\ tickets' = [tickets EXCEPT ![cur[d].ticket].done = Tail(@)]
    /\ Resume(d, DecisionResult(Head(tickets[cur[d].ticket].done), cur[d].st.msg),
              "decision", Head(tickets[cur[d].ticket].done))
    /\ UNCHANGED <<compVars, configVars, now, cancelled, inLog, pending, nextID,
                   evalVars>>

\* case <-ctx.Done()
PumpCancelled(d) ==
    /\ pump[d] = "await"
    /\ cancelled
    /\ Resume(d, CancelResult(cur[d].st.msg), "cancel", DecisionPending)
    /\ UNCHANGED <<compVars, configVars, now, cancelled, inLog, approvalVars, evalVars>>

\* ------------------------------------------ the chain on any interceptors
\* An interceptor as InterceptorChain.Process sees it: what it returns
\* (the bytes it was given, other bytes, nil bytes, or an error) and whether
\* it writes a metadata key of its own.
Stages == [kind : {"pass", "rewrite", "drop", "block"}, writes : BOOLEAN]

Chains == UNION { [1..n -> Stages] : n \in 0..MaxChain }

\* Interceptor number i of the chain, called on msg.
StageIntercept(i, stage, msg) ==
    LET meta == IF stage.writes
                THEN MetaSet(msg.Metadata, ToString(i), msg.RawBytes)
                ELSE msg.Metadata
    IN CASE stage.kind = "pass" -> Returns(<<msg.RawBytes>>, NoErr, meta)
         [] stage.kind = "rewrite" ->
              Returns(<<Append(msg.RawBytes, i)>>, NoErr, meta)
         [] stage.kind = "drop" -> Returns(<<>>, NoErr, meta)
         [] stage.kind = "block" ->
              Returns(<<>>, Err("blocked", ToString(i)), meta)

ChainIdle == [pc |-> "idle"]

\* Process(ctx, msg) has been called: raw := msg.RawBytes.
ChainStart(cfg) ==
    [pc |-> "loop", cfg |-> cfg, i |-> 1, orig |-> <<0>>, raw |-> <<0>>,
     meta |-> NilMeta, seen |-> <<>>, out |-> <<>>, err |-> NoErr]

\* The loop never assigns msg.RawBytes.
SeenBytesOriginal(ch) == ch.orig

\* msg.RawBytes = raw at the head of the loop body.
SeenBytes(ch) == ch.raw

\* Only an error ends the loop.
ChainStopsOnError(r) == r.err # NoErr

\* if err != nil { return nil, err }; if modified == nil { return nil, nil }
ChainStops(r) == r.err # NoErr \/ r.out = <<>>

\* One iteration of the loop of InterceptorChain.Process.
ChainStep ==
    /\ chainRun.pc = "loop"
    /\ chainRun.i <= Len(chainRun.cfg)
    /\ LET msg == [RawBytes |-> SeenBytes(chainRun), Metadata |-> chainRun.meta]
           r == StageIntercept(chainRun.i, chainRun.cfg[chainRun.i], msg)
           call == [who |-> chainRun.i, raw |-> msg.RawBytes,
                    meta |-> msg.Metadata, out |-> r.out, err |-> r.err,
                    metaOut |-> r.meta]
       IN chainRun' =
            IF ChainStops(r)
            THEN [chainRun EXCEPT !.pc = "done", !.meta = r.meta,
                                  !.seen = Append(@, call),
                                  !.out = <<>>, !.err = r.err]
            ELSE [chainRun EXCEPT !.i = @ + 1, !.meta = r.meta,
                                  !.seen = Append(@, call),
                                  !.raw = IF r.out = <<>> THEN @ ELSE r.out[1]]
    /\ UNCHANGED <<configVars, now, cancelled, proxyVars, approvalVars,
                   evalVars, life, store, bus, sideVars, downStdin>>

\* return raw, nil after the last interceptor.
ChainReturn ==
    /\ chainRun.pc = "loop"
    /\ chainRun.i > Len(chainRun.cfg)
    /\ chainRun' = [chainRun EXCEPT !.pc = "done", !.out = <<chainRun.raw>>,
                                    !.err = NoErr]
    /\ UNCHANGED <<configVars, now, cancelled, proxyVars, approvalVars,
                   evalVars, life, store, bus, sideVars, downStdin>>

\* ------------------------------------------------------- process lifecycle
\* main from the call of Proxy.Run to the exit of the process.
\*   pc        "wait" (Run blocks in p.cmd.Wait()), "join" (Run has called
\*             cancel() and blocks in wg.Wait()), "returned", "exited"
\*   child     the subprocess: "running", "exit0", "exit1", "killed"
\*   sig       SIGINT/SIGTERM has cancelled main's context
\*   scope     the context the pumps were given is done
\*   stdin     the host's end of os.Stdin: "open" or "closed"
\*   hostPump, serverPump
\*             "read" (in scanner.Scan()), "ok" (returned nil), "fatal"
\*             (returned a scanner or write error), "ctx" (returned ctx.Err())
\*   hostLines lines the host pump has forwarded
\*   errCh     the errors the pump goroutines sent, waitErr, runErr ("" for
\*             no error), and what the deferred calls have done
LifeIdle == [pc |-> "idle"]

LifeStart ==
    [pc |-> "wait", child |-> "running", sig |-> FALSE, scope |-> FALSE,
     stdin |-> "open", hostPump |-> "read", serverPump |-> "read",
     hostLines |-> 0, piped |-> 0, written |-> 0, processed |-> 0,
     errCh |-> <<>>, waitErr |-> "", runErr |-> "",
     sessionEnded |-> FALSE, storeClosed |-> FALSE, code |-> -1]

lifeOthers == <<configVars, now, cancelled, proxyVars, approvalVars, evalVars,
                chainRun, store, bus, sideVars, downStdin>>

\* A pump goroutine's pipeMessages has returned `how`; an error goes to errCh.
PumpReturned(l, which, how) ==
    [l EXCEPT ![which] = how,
              !.errCh = IF how = "ok" THEN @ ELSE Append(@, which)]

\* The host writes a line; the host pump's Scan returns it.
HostLine ==
    /\ life.pc \in {"wait", "join"}
    /\ life.hostPump = "read" /\ life.stdin = "open"
    /\ life.hostLines < MaxLines
    /\ \E fails \in {life.child # "running"} \cup {FALSE} :
         life' = IF life.scope THEN PumpReturned(life, "hostPump", "ctx")
                 ELSE IF fails THEN PumpReturned(life, "hostPump", "fatal")
                 ELSE [life EXCEPT !.hostLines = @ + 1]
    /\ UNCHANGED lifeOthers

\* The host writes more than maxMessageSize bytes without a newline:
\* Scan returns false and scanner.Err() is bufio.ErrTooLong.
HostLineTooLong ==
    /\ life.pc \in {"wait", "join"}
    /\ life.hostPump = "read" /\ life.stdin = "open"
    /\ life' = PumpReturned(life, "hostPump", "fatal")
    /\ UNCHANGED lifeOthers

\* The host closes its end of stdin.
HostCloses ==
    /\ life.pc \in {"wait", "join"}
    /\ life.stdin = "open"
    /\ life' = [life EXCEPT !.stdin = "closed"]
    /\ UNCHANGED lifeOthers

\* Scan on os.Stdin reports end of file.
HostPumpEOF ==
    /\ life.pc \in {"wait", "join"}
    /\ life.hostPump = "read" /\ life.stdin = "closed"
    /\ life' = PumpReturned(life, "hostPump", "ok")
    /\ UNCHANGED lifeOthers

\* The subprocess writes a line longer than maxMessageSize.
ServerLineTooLong ==
    /\ life.pc \in {"wait", "join"}
    /\ life.serverPump = "read" /\ life.child = "running"
    /\ life' = PumpReturned(life, "serverPump", "fatal")
    /\ UNCHANGED lifeOthers

\* The subprocess writes a complete line to its stdout: it sits in the pipe
\* until the server pump reads it.
ChildWrites ==
    /\ life.pc \in {"wait", "join"}
    /\ life.child = "running"
    /\ life.written < MaxLines
    /\ life' = [life EXCEPT !.piped = @ + 1, !.written = @ + 1]
    /\ UNCHANGED lifeOthers

\* The server pump's Scan returns a line of the pipe and the scope is not
\* cancelled: the line goes through the rest of the loop body.
ServerLine ==
    /\ life.pc \in {"wait", "join"}
    /\ life.serverPump = "read" /\ life.piped > 0 /\ ~life.scope
    /\ life' = [life EXCEPT !.piped = @ - 1, !.processed = @ + 1]
    /\ UNCHANGED lifeOthers

\* The server pump's Scan returns a line after the scope was cancelled:
\* pipeMessages returns ctx.Err() and the line is not processed.
ServerLineAfterCancel ==
    /\ life.pc \in {"wait", "join"}
    /\ life.serverPump = "read" /\ life.piped > 0 /\ life.scope
    /\ life' = PumpReturned(life, "serverPump", "ctx")
    /\ UNCHANGED lifeOthers

\* The subprocess is gone: the read of its stdout pipe ends with EOF once
\* the pipe is empty, or, once Wait has closed the pipe under the reader,
\* with an error, whatever the pipe still holds.
ServerPumpEOF ==
    /\ life.pc \in {"wait", "join"}
    /\ life.serverPump = "read" /\ life.child # "running"
    /\ \E how \in (IF life.piped = 0 THEN {"ok"} ELSE {})
                    \cup (IF life.pc = "join" THEN {"fatal"} ELSE {}) :
         life' = PumpReturned(life, "serverPump", how)
    /\ UNCHANGED lifeOthers

\* The subprocess exits on its own.
ChildExits ==
    /\ life.pc \in {"wait", "join"}
    /\ life.child = "running"
    /\ \E status \in {"exit0", "exit1"} : life' = [life EXCEPT !.child = status]
    /\ UNCHANGED lifeOthers

\* SIGINT or SIGTERM: signal.NotifyContext cancels main's context, from
\* which Run's scope derives.
Signal ==
    /\ life.pc \in {"wait", "join"}
    /\ ~life.sig
    /\ life' = [life EXCEPT !.sig = TRUE, !.scope = TRUE]
    /\ UNCHANGED lifeOthers

\* exec.CommandContext kills the subprocess when main's context is done.
KillChild ==
    /\ life.pc \in {"wait", "join"}
    /\ life.sig /\ life.child = "running"
    /\ life' = [life EXCEPT !.child = "killed"]
    /\ UNCHANGED lifeOthers

\* waitErr := p.cmd.Wait(); cancel()
RunWaitReturns ==
    /\ life.pc = "wait"
    /\ life.child # "running"
    /\ life' = [life EXCEPT !.pc = "join", !.scope = TRUE,
                            !.waitErr = IF life.child = "exit0" THEN ""
                                        ELSE life.child]
    /\ UNCHANGED lifeOthers

\* wg.Wait() is over; the select on errCh picks what Run returns.
RunReturns ==
    /\ life.pc = "join"
    /\ life.hostPump # "read" /\ life.serverPump # "read"
    /\ life' = [life EXCEPT !.pc = "returned",
                   !.runErr = IF life.waitErr # "" THEN life.waitErr
                              ELSE IF life.errCh # <<>> THEN life.errCh[1]
                              ELSE ""]
    /\ UNCHANGED lifeOthers

\* Run returned an error: logger.Error, os.Exit(1).  Deferred calls do not
\* run.
MainExitsOnError ==
    /\ life.pc = "returned"
    /\ life.runErr # ""
    /\ life' = [life EXCEPT !.pc = "exited", !.code = 1]
    /\ UNCHANGED lifeOthers

\* Run returned nil: main returns and its deferred calls run, EndSession
\* before sqliteStore.Close.
MainReturns ==
    /\ life.pc = "returned"
    /\ life.runErr = ""
    /\ life' = [life EXCEPT !.pc = "exited", !.code = 0,
                            !.sessionEnded = TRUE, !.storeClosed = TRUE]
    /\ UNCHANGED lifeOthers

\* -------------------------------------------------------------------- store
\* SQLiteStore and its background writer.
\*   pc       "open", "closing" (Close has closed writeCh and waits for the
\*            writer), "closed" (Close has returned), "crashed" (a panic)
\*   writeCh  the entries in the channel; chClosed: close(writeCh) was called
\*   batch    the writer's in-memory batch; flushed: the entries handed to
\*            flushBatch, in order; writer: "run" or "done"
\*   next     the entry the next LogMessage call submits; accepted: the
\*            entries LogMessage enqueued; last: the last LogMessage call
\*   atClose  what was in the channel and in the batch when Close was called
StoreIdle == [pc |-> "idle"]

StoreOpen ==
    [pc |-> "open", writeCh |-> <<>>, chClosed |-> FALSE, batch |-> <<>>,
     flushed |-> <<>>, attempts |-> <<>>, rows |-> <<>>,
     writer |-> "run", next |-> 1, accepted |-> {},
     last |-> [id |-> 0, ret |-> "", enqueued |-> FALSE],
     atClose |-> [queued |-> 0, batched |-> 0]]

storeOthers == <<configVars, now, cancelled, proxyVars, approvalVars, evalVars,
                 chainRun, life, bus, sideVars, downStdin>>

\* A full channel makes room by giving up its oldest entry.
EnqueueEvictOldest(ch, e) ==
    IF Len(ch) < bufferSize THEN Append(ch, e) ELSE Append(Tail(ch), e)

\* select { case s.writeCh <- entry: default: } on an open channel.
Enqueue(ch, e) == IF Len(ch) < bufferSize THEN Append(ch, e) ELSE ch

\* SQLiteStore.LogMessage.  A send on a closed channel panics, inside a
\* select with a default case as well.
LogMessage ==
    /\ store.pc \in {"open", "closing", "closed"}
    /\ store.next <= MaxEntries
    /\ store' =
         IF store.chClosed
         THEN [store EXCEPT !.pc = "crashed", !.next = @ + 1,
                  !.last = [id |-> store.next, ret |-> "panic",
                            enqueued |-> FALSE]]
         ELSE [store EXCEPT !.next = @ + 1,
                  !.writeCh = Enqueue(@, store.next),
                  !.accepted = IF Len(store.writeCh) < bufferSize
                               THEN @ \cup {store.next} ELSE @,
                  !.last = [id |-> store.next, ret |-> "nil",
                            enqueued |-> Len(store.writeCh) < bufferSize]]
    /\ UNCHANGED storeOthers

\* What a flushBatch call comes to: the transaction is committed, or Begin,
\* Prepare or Commit fails and no row is written.
FlushOutcomes == {"committed", "failed"}

\* flushBatch(batch), called for the reason `trigger`.
flushBatch(st, batch, trigger, how) ==
    [st EXCEPT !.flushed = @ \o batch,
               !.attempts = Append(@, [entries |-> batch, trigger |-> trigger,
                                       result |-> how]),
               !.rows = IF how = "committed" THEN @ \o batch ELSE @]

\* The writer keeps a batch whose transaction failed, to flush it again.
KeepFailedBatch(batch, how) ==
    IF how = "failed" THEN batch ELSE <<>>

\* batch = batch[:0] after flushBatch, whatever flushBatch did.
ResetBatch(batch, how) == <<>>

\* The writer returns without flushing what it holds.
FinalFlushSkipped(st) == st.flushed

\* if len(batch) > 0 { s.flushBatch(batch) } before the writer returns.
FinalFlush(st) == st.flushed \o st.batch

\* consumeWrites: case entry, ok := <-s.writeCh with ok true.
WriterReceives ==
    /\ store.pc \in {"open", "closing"}
    /\ store.writer = "run"
    /\ store.writeCh # <<>>
    /\ LET batch == Append(store.batch, Head(store.writeCh))
       IN IF Len(batch) >= batchSize
          THEN \E how \in FlushOutcomes :
                  store' = [flushBatch(store, batch, "size", how)
                               EXCEPT !.writeCh = Tail(@),
                                      !.batch = ResetBatch(batch, how)]
          ELSE store' = [store EXCEPT !.writeCh = Tail(@), !.batch = batch]
    /\ UNCHANGED storeOthers

\* consumeWrites: case <-ticker.C.
WriterTicks ==
    /\ store.pc \in {"open", "closing"}
    /\ store.writer = "run"
    /\ store.batch # <<>>
    /\ \E how \in FlushOutcomes :
          store' = [flushBatch(store, store.batch, "tick", how)
                       EXCEPT !.batch = ResetBatch(store.batch, how)]
    /\ UNCHANGED storeOthers

\* consumeWrites: the receive reports ok false (channel closed and empty).
WriterSeesClose ==
    /\ store.pc \in {"open", "closing"}
    /\ store.writer = "run"
    /\ store.chClosed /\ store.writeCh = <<>>
    /\ \E how \in FlushOutcomes :
          store' = [(IF store.batch # <<>>
                     THEN flushBatch(store, store.batch, "close", how)
                     ELSE store)
                       EXCEPT !.writer = "done", !.batch = <<>>,
                              !.flushed = FinalFlush(store)]
    /\ UNCHANGED storeOthers

\* SQLiteStore.Close: close(s.writeCh), then s.wg.Wait().
CloseCalled ==
    /\ store.pc = "open"
    /\ store' = [store EXCEPT !.pc = "closing", !.chClosed = TRUE,
                    !.atClose = [queued |-> Len(store.writeCh),
                                 batched |-> Len(store.batch)]]
    /\ UNCHANGED storeOthers

\* s.wg.Wait() is over; Close returns s.db.Close().
CloseReturns ==
    /\ store.pc = "closing"
    /\ store.writer = "done"
    /\ store' = [store EXCEPT !.pc = "closed"]
    /\ UNCHANGED storeOthers

\* ---------------------------------------------------------------- event bus
\* EventBus: the log-entry subscriptions.  Both pumps publish, each under the
\* read lock; Subscribe and the unsubscribe function take the write lock; a
\* subscriber receives from its channel without any lock.
\*   subs   per subscriber id: whether it is in the map, its channel and
\*          whether the channel is closed; and of the current subscription
\*          the entries the subscriber took from the channel (rcvd), the
\*          entries whose Publish call began while it was in the map (seen)
\*          and the value of next when the unsubscribe function ran (until)
\*   pub    per publisher: "none", or the entry being published, the
\*          subscribers the range loop has still to visit, and those that
\*          got the entry and those that missed it
\*   next   the entry the next Publish call carries
\*   last   the last Publish call that returned
\*   returned  the entries whose Publish call has returned
\*   prior  per entry, the entries whose Publish had returned when its own
\*          Publish call began
\*   pc     "open", or "panicked" after a send on a closed channel
BusIdle == [pc |-> "idle"]

SubIds == {"dash1", "dash2"}

NoPublish == [pc |-> "none"]

NoSubscriber ==
    [active |-> FALSE, closed |-> FALSE, ch |-> <<>>, rcvd |-> <<>>,
     seen |-> {}, until |-> 0]

BusOpen ==
    [pc |-> "open",
     subs |-> [id \in SubIds |-> NoSubscriber],
     pub |-> [d \in Directions |-> NoPublish],
     next |-> 1,
     last |-> [entry |-> 0, delivered |-> {}, missed |-> {}],
     returned |-> {},
     prior |-> [e \in 1..MaxEvents |-> {}]]

busOthers == <<configVars, now, cancelled, proxyVars, approvalVars, evalVars,
               chainRun, life, store, sideVars, downStdin>>

\* Subscribe and unsubscribe do not wait for the lock.
LockIgnored == TRUE

\* No Publish holds the read lock.
WriteLockFree == \A d \in Directions : bus.pub[d].pc = "none"

\* EventBus.Subscribe: a fresh channel of capacity bufSize under the id.
Subscribe(id) ==
    /\ bus.pc = "open"
    /\ WriteLockFree
    /\ ~bus.subs[id].active
    /\ bus' = [bus EXCEPT !.subs[id] = [NoSubscriber EXCEPT !.active = TRUE]]
    /\ UNCHANGED busOthers

\* The unsubscribe function: delete the id and close the channel.
Unsubscribe(id) ==
    /\ bus.pc = "open"
    /\ WriteLockFree
    /\ bus.subs[id].active
    /\ bus' = [bus EXCEPT !.subs[id].active = FALSE,
                          !.subs[id].closed = TRUE,
                          !.subs[id].until = bus.next]
    /\ UNCHANGED busOthers

\* The subscriber takes one entry from its channel; a closed channel still
\* hands out what it holds.
Receive(id) ==
    /\ bus.pc = "open"
    /\ bus.subs[id].ch # <<>>
    /\ bus' = [bus EXCEPT !.subs[id].ch = Tail(@),
                          !.subs[id].rcvd = Append(@, Head(bus.subs[id].ch))]
    /\ UNCHANGED busOthers

\* EventBus.Publish takes the read lock and starts ranging over the map.
PublishBegin(d) ==
    /\ bus.pc = "open"
    /\ bus.pub[d].pc = "none"
    /\ bus.next <= MaxEvents
    /\ bus' = [bus EXCEPT
          !.next = @ + 1,
          !.prior[bus.next] = bus.returned,
          !.subs = [id \in SubIds |->
                      IF bus.subs[id].active
                      THEN [bus.subs[id] EXCEPT !.seen = @ \cup {bus.next}]
                      ELSE bus.subs[id]],
          !.pub[d] = [pc |-> "range", entry |-> bus.next,
                      todo |-> {id \in SubIds : bus.subs[id].active},
                      delivered |-> {}, missed |-> {}]]
    /\ UNCHANGED busOthers

\* The send goes through whatever the channel holds.
OfferUnbounded(ch, e) == Append(ch, e)

\* The channel hands out its newest entry first.
OfferFront(ch, e) == IF Len(ch) < bufSize THEN <<e>> \o ch ELSE ch

\* select { case ch <- entry: default: }
Offer(ch, e) == IF Len(ch) < bufSize THEN Append(ch, e) ELSE ch

\* One iteration of the range loop (the map's order is unspecified).  A
\* send on a closed channel panics.
PublishSend(d, id) ==
    /\ bus.pc = "open"
    /\ bus.pub[d].pc = "range"
    /\ id \in bus.pub[d].todo
    /\ LET ch == Offer(bus.subs[id].ch, bus.pub[d].entry)
           got == ch # bus.subs[id].ch
       IN bus' = IF bus.subs[id].closed
                 THEN [bus EXCEPT !.pc = "panicked"]
                 ELSE [bus EXCEPT
                         !.subs[id].ch = ch,
                         !.pub[d].todo = @ \ {id},
                         !.pub[d].delivered = IF got THEN @ \cup {id} ELSE @,
                         !.pub[d].missed = IF got THEN @ ELSE @ \cup {id}]
    /\ UNCHANGED busOthers

\* The loop is over; Publish releases the read lock and returns.
PublishEnd(d) ==
    /\ bus.pc = "open"
    /\ bus.pub[d].pc = "range"
    /\ bus.pub[d].todo = {}
    /\ bus' = [bus EXCEPT
          !.pub[d] = NoPublish,
          !.returned = @ \cup {bus.pub[d].entry},
          !.last = [entry |-> bus.pub[d].entry,
                    delivered |-> bus.pub[d].delivered,
                    missed |-> bus.pub[d].missed]]
    /\ UNCHANGED busOthers

\* ----------------------------------------------------------- tool analytics
\* ToolAnalyticsInterceptor with its janitor, called with any message.
\*   cfg         pruneConfig
\*   pendingIDs  the keys of the pendingIDs map; old: those whose timestamp
\*               is more than five minutes back
\*   open        the ids recorded from tools/list requests that no response
\*               has been matched with since; swept: those of them the
\*               janitor has removed
\*   registered  the tool names handed to a RegisterTools call that worked
\*   last        the last Intercept call: direction, bytes, whether it went
\*               to handleToolsListResponse, what it returned and did
MetaKeyToolsPruned == "tools_pruned"

KindRequest == "request"
KindResponse == "response"
KindNotification == "notification"
KindError == "error"

\* JSONRPCMessage.Kind.
Kind(m) ==
    IF m.method # "" /\ m.id # NoID THEN KindRequest
    ELSE IF m.method # "" /\ m.id = NoID THEN KindNotification
    ELSE IF m.isErr THEN KindError
    ELSE KindResponse

\* A tool of a tools/list result: a JSON object whose name is a string, or
\* an element that json.Unmarshal into toolNameOnly rejects.
ToolNames == {"read_file", "write_file"}
Tool(name) == [name |-> name, parses |-> TRUE]
BadTool == [name |-> "", parses |-> FALSE]
ToolPool == {Tool(n) : n \in ToolNames} \cup {BadTool}
ToolLists == UNION { [1..n -> ToolPool] : n \in 0..MaxTools }

\* The result field: absent, a value that does not unmarshal into
\* toolsListResult, or an object with a tools array and a cursor.
NoResult == [kind |-> "nil"]
BadResult == [kind |-> "bad"]
ToolsResult(tools, cursor) ==
    [kind |-> "tools", tools |-> tools, cursor |-> cursor]

\* The bytes of a line, by what ParseMessage reads from them.
Payload(id, method, isErr, result) ==
    [parseErr |-> FALSE, id |-> id, method |-> method, isErr |-> isErr,
     result |-> result]
GarbagePayload ==
    [parseErr |-> TRUE, id |-> NoID, method |-> "", isErr |-> FALSE,
     result |-> NoResult]

ListIDs == {"1", "2"}

HostPayloads ==
    { Payload(id, "tools/list", FALSE, NoResult) : id \in ListIDs }
    \cup { Payload(NoID, "tools/list", FALSE, NoResult),
           Payload("1", "tools/call", FALSE, NoResult),
           Payload("1", "", FALSE, ToolsResult(<<Tool("read_file")>>, "c1")),
           GarbagePayload }

\* The tools arrays of the responses the interceptor is called with.
ToolSamples ==
    { <<>>, <<BadTool>>, <<Tool("read_file")>>,
      <<Tool("read_file"), Tool("write_file")>>,
      <<Tool("write_file"), BadTool, Tool("read_file")>> }

ServerPayloads ==
    { Payload("1", "", FALSE, ToolsResult(tools, "c1")) :
         tools \in ToolSamples }
    \cup { Payload("2", "", FALSE,
                   ToolsResult(<<Tool("read_file"), Tool("write_file")>>,
                               "c1")),
           Payload("1", "", FALSE, NoResult),
           Payload("1", "", FALSE, BadResult),
           Payload("1", "", TRUE, NoResult),
           Payload("1", "tools/list", FALSE, NoResult),
           Payload(NoID, "", FALSE, ToolsResult(<<Tool("read_file")>>, "c1")),
           GarbagePayload }

PruneConfigs ==
    [UnusedSessions : {0, 3}, KeepTopK : {0, 1, 2},
     AlwaysKeep : {{}, {"read_file"}}]

\* What GetToolUsageCounts returns: calls per tool name.
UsageCounts == [ToolNames -> {0, 1, 2}]
NoUsage == [n \in ToolNames |-> 0]
CountSamples ==
    { NoUsage, [NoUsage EXCEPT !["read_file"] = 2],
      [NoUsage EXCEPT !["read_file"] = 1, !["write_file"] = 2] }

\* PruneConfig.enabled.
enabled(cfg) == cfg.UnusedSessions > 0 \/ cfg.KeepTopK > 0

\* The positions of a list, in order, that satisfy a test.
Positions(tools, Test(_)) ==
    SelectSeq([i \in 1..Len(tools) |-> i], Test)

\* applyPruning, strategy 1 asking for more than one call.
KeepSetUnusedTwoCalls(cfg, tools, counts) ==
    IF cfg.UnusedSessions > 0
    THEN {tools[i].name : i \in {j \in DOMAIN tools :
             /\ tools[j].parses
             /\ \/ tools[j].name \in cfg.AlwaysKeep
                \/ counts[tools[j].name] > 1}}
    ELSE {tools[i].name : i \in {j \in DOMAIN tools : tools[j].parses}}

\* applyPruning, strategy 1: the names kept by the unused-sessions filter.
KeepSetUnused(cfg, tools, counts) ==
    IF cfg.UnusedSessions > 0
    THEN {tools[i].name : i \in {j \in DOMAIN tools :
             /\ tools[j].parses
             /\ \/ tools[j].name \in cfg.AlwaysKeep
                \/ counts[tools[j].name] > 0}}
    ELSE {tools[i].name : i \in {j \in DOMAIN tools : tools[j].parses}}

\* applyPruning, strategy 2 and the final re-adding of always-keep names:
\* the keep sets it can end with.  sort.Slice is not stable, so among
\* equal counts any of the tools may come first.
KeepSets(cfg, tools, counts) ==
    LET keepSet == KeepSetUnused(cfg, tools, counts)
        inSet == {i \in DOMAIN tools :
                    /\ tools[i].parses
                    /\ tools[i].name \in keepSet
                    /\ tools[i].name \notin cfg.AlwaysKeep}
        firstK == {S \in SUBSET inSet :
                     /\ Cardinality(S) = cfg.KeepTopK
                     /\ \A i \in S, j \in inSet \ S :
                           counts[tools[i].name] >= counts[tools[j].name]}
    IN IF cfg.KeepTopK > 0 /\ Cardinality(inSet) > cfg.KeepTopK
       THEN {cfg.AlwaysKeep \cup {tools[i].name : i \in S} : S \in firstK}
       ELSE {keepSet \cup cfg.AlwaysKeep}

\* applyPruning: the (kept, pruned) pairs it can return, as positions of
\* the tools array.  Elements whose name cannot be read are kept, first.
applyPruning(cfg, tools, counts) ==
    { [kept |-> Positions(tools, LAMBDA i : ~tools[i].parses)
                \o Positions(tools, LAMBDA i :
                      tools[i].parses /\ tools[i].name \in keepSet),
       pruned |-> Positions(tools, LAMBDA i :
                      tools[i].parses /\ tools[i].name \notin keepSet)] :
      keepSet \in KeepSets(cfg, tools, counts) }

\* The response is rebuilt from the tools alone.
rebuildToolsOnly(parsed, keptTools) ==
    Payload(parsed.id, "", FALSE, ToolsResult(keptTools, ""))

\* rebuildResponse: the result's other fields are kept, its tools replaced,
\* and the envelope is {jsonrpc, id, result}.
rebuildResponse(parsed, keptTools) ==
    Payload(parsed.id, "", FALSE, [parsed.result EXCEPT !.tools = keptTools])

\* The number of tools that stayed.
KeptCount(p) == Len(p.kept)

\* len(pruned), the value of tools_pruned.
PrunedCount(p) == Len(p.pruned)

\* What a call returns and does: the bytes, the metadata, the names
\* registered, and applyPruning's result when it ran.
TAResult(out, meta, registered, ran, p) ==
    [out |-> out, meta |-> meta, registered |-> registered, ran |-> ran,
     kept |-> p.kept, pruned |-> p.pruned]

NotPruned == [kept |-> <<>>, pruned |-> <<>>]

\* handleToolsListResponse, for every outcome of the two store calls:
\* storeErr names the call that fails, "register" or "counts".
handleToolsListResponse(cfg, msg, counts, storeErr) ==
    LET raw == msg.RawBytes
        parsed == msg.Parsed
    IN IF parsed.result.kind # "tools"
       THEN {TAResult(raw, msg.Metadata, {}, FALSE, NotPruned)}
       ELSE
         LET tools == parsed.result.tools
             records == {tools[i].name :
                           i \in {j \in DOMAIN tools : tools[j].parses}}
             reg == IF records # {} /\ storeErr # "register"
                    THEN records ELSE {}
         IN IF ~enabled(cfg) \/ storeErr = "counts"
            THEN {TAResult(raw, msg.Metadata, reg, FALSE, NotPruned)}
            ELSE { IF p.pruned = <<>>
                   THEN TAResult(raw, msg.Metadata, reg, TRUE, p)
                   ELSE TAResult(
                          rebuildResponse(parsed,
                             [k \in 1..Len(p.kept) |-> tools[p.kept[k]]]),
                          MetaSet(msg.Metadata, MetaKeyToolsPruned,
                                  PrunedCount(p)),
                          reg, TRUE, p) :
                   p \in applyPruning(cfg, tools, counts) }

TAIdle == [pc |-> "idle"]

NoCallYet ==
    [d |-> "", raw |-> GarbagePayload, handled |-> FALSE, wasOpen |-> FALSE,
     wasSwept |-> FALSE, counts |-> NoUsage, storeErr |-> "",
     res |-> TAResult(GarbagePayload, NilMeta, {}, FALSE, NotPruned)]

\* NewToolAnalyticsInterceptor.
TAStart(cfg) ==
    [pc |-> "run", cfg |-> cfg, pendingIDs |-> {}, old |-> {}, open |-> {},
     swept |-> {}, registered |-> {}, last |-> NoCallYet]

taOthers == <<configVars, now, cancelled, proxyVars, approvalVars, evalVars,
              chainRun, life, store, bus, registry, scrubber, downStdin>>

\* The entry stays in the map after its response was handled.
ConsumeNothing(ids, id) == ids

\* delete(ta.pendingIDs, idStr)
Consume(ids, id) == ids \ {id}

\* The message the interceptor is handed when it is called on its own: the
\* bytes are the ones pipeMessages parsed.
Alone(d, raw) ==
    [Direction |-> d, RawBytes |-> raw, Parsed |-> raw, Metadata |-> NilMeta]

\* ToolAnalyticsInterceptor.Intercept: what one call does to the
\* interceptor's state.  msg.Parsed is pipeMessages' parse of the line,
\* msg.RawBytes what the interceptors in front have made of it.
TACall(msg, counts, storeErr) ==
    /\ ta.pc = "run"
    /\ LET d == msg.Direction
           raw == msg.RawBytes
           parsed == msg.Parsed
           call == [d |-> d, raw |-> raw, handled |-> FALSE,
                    wasOpen |-> parsed.id \in ta.open,
                    wasSwept |-> parsed.id \in ta.swept,
                    counts |-> counts, storeErr |-> storeErr,
                    res |-> TAResult(raw, msg.Metadata, {}, FALSE, NotPruned)]
       IN IF parsed.parseErr
          THEN ta' = [ta EXCEPT !.last = call]
          ELSE IF d = DirHostToServer /\ parsed.method = "tools/list"
          THEN ta' = IF parsed.id # NoID
                     THEN [ta EXCEPT !.last = call,
                                     !.pendingIDs = @ \cup {parsed.id},
                                     !.old = @ \ {parsed.id},
                                     !.open = @ \cup {parsed.id},
                                     !.swept = @ \ {parsed.id}]
                     ELSE [ta EXCEPT !.last = call]
          ELSE IF /\ d = DirServerToHost
                  /\ Kind(parsed) = KindResponse
                  /\ parsed.id # NoID
                  /\ parsed.id \in ta.pendingIDs
          THEN \E r \in handleToolsListResponse(ta.cfg, msg, counts, storeErr) :
                  ta' = [ta EXCEPT
                           !.last = [call EXCEPT !.handled = TRUE, !.res = r],
                           !.pendingIDs = Consume(@, parsed.id),
                           !.old = @ \ {parsed.id},
                           !.open = @ \ {parsed.id},
                           !.registered = @ \cup r.registered]
          ELSE ta' = [ta EXCEPT !.last = call]

\* ToolAnalyticsInterceptor.Intercept, called on its own.
TAIntercept(d, raw, counts, storeErr) ==
    /\ TACall(Alone(d, raw), counts, storeErr)
    /\ UNCHANGED taOthers

\* Five minutes go by without a tools/list request.
FiveMinutesPass ==
    /\ ta.pc = "run"
    /\ ta.old # ta.pendingIDs
    /\ ta' = [ta EXCEPT !.old = ta.pendingIDs]
    /\ UNCHANGED taOthers

\* cleanupLoop: a tick of the janitor.
cleanupLoop ==
    /\ ta.pc = "run"
    /\ ta.old # {}
    /\ ta' = [ta EXCEPT !.pendingIDs = @ \ ta.old, !.old = {},
                        !.swept = @ \cup ta.old]
    /\ UNCHANGED taOthers

\* One applyPruning call on any tools array, usage counts and settings.
PruneStart(cfg, tools, counts) ==
    [pc |-> "prune", cfg |-> cfg, tools |-> tools, counts |-> counts,
     done |-> FALSE, kept |-> <<>>, pruned |-> <<>>]

PruneCall ==
    /\ ta.pc = "prune"
    /\ ~ta.done
    /\ \E p \in applyPruning(ta.cfg, ta.tools, ta.counts) :
          ta' = [ta EXCEPT !.done = TRUE, !.kept = p.kept,
                           !.pruned = p.pruned]
    /\ UNCHANGED taOthers

\* ------------------------------------------------------- tool registration
\* The tool_registry table under RegisterTools calls.
\*   rows   the rows of the table: id, session_id, tool_name, description,
\*          first_seen
\*   clock  time.Now() of the next call (one tick per call)
\*   first  per (session_id, tool_name): the description and first_seen of
\*          the first registration that was committed
\*   last   the last RegisterTools call
RegistryIdle == [pc |-> "idle"]

Sessions == {"s1", "s2"}
Descriptions == {"d1", "d2"}
RegKeys == Sessions \X ToolNames
NotRegistered == [description |-> "", first_seen |-> 0]

\* store.ToolRecord, and the slices RegisterTools is called with.
ToolRecord(name, description) == [ToolName |-> name, Description |-> description]
ToolRecords == {ToolRecord(n, d) : n \in ToolNames, d \in Descriptions}
RecordLists == UNION { [1..n -> ToolRecords] : n \in 0..2 }

RegistryOpen ==
    [pc |-> "open", rows |-> {}, clock |-> 1,
     first |-> [k \in RegKeys |-> NotRegistered],
     last |-> [session |-> "", tools |-> <<>>, committed |-> FALSE]]

registryOthers == <<configVars, now, cancelled, proxyVars, approvalVars,
                    evalVars, chainRun, life, store, bus, ta, scrubber,
                    downStdin>>

NewRow(rows, session, t, at) ==
    [id |-> Cardinality(rows) + 1, session_id |-> session,
     tool_name |-> t.ToolName, description |-> t.Description,
     first_seen |-> at]

\* INSERT OR REPLACE: the row of the pair is replaced.
InsertOrReplace(rows, session, t, at) ==
    {r \in rows : ~(r.session_id = session /\ r.tool_name = t.ToolName)}
    \cup {NewRow(rows, session, t, at)}

\* INSERT OR IGNORE under UNIQUE(session_id, tool_name).
InsertOrIgnore(rows, session, t, at) ==
    IF \E r \in rows : r.session_id = session /\ r.tool_name = t.ToolName
    THEN rows
    ELSE rows \cup {NewRow(rows, session, t, at)}

\* The loop of RegisterTools over the slice; the statement fails for the
\* positions in failed (logged, the loop goes on).
InsertAll(rows, session, tools, at, failed) ==
    LET run[i \in 0..Len(tools)] ==
           IF i = 0 THEN rows
           ELSE IF i \in failed THEN run[i - 1]
           ELSE InsertOrIgnore(run[i - 1], session, tools[i], at)
    IN run[Len(tools)]

\* The first committed registration of each pair after one more call.
FirstAfter(first, session, tools, at, failed) ==
    LET run[i \in 0..Len(tools)] ==
           IF i = 0 THEN first
           ELSE IF i \in failed
                   \/ run[i - 1][<<session, tools[i].ToolName>>] # NotRegistered
           THEN run[i - 1]
           ELSE [run[i - 1] EXCEPT ![<<session, tools[i].ToolName>>] =
                    [description |-> tools[i].Description, first_seen |-> at]]
    IN run[Len(tools)]

\* SQLiteStore.RegisterTools: one transaction; when the commit fails the
\* table is as before.
RegisterTools(session, tools, failed, commits) ==
    /\ registry.pc = "open"
    /\ registry.clock <= MaxRegisterCalls
    /\ failed \subseteq DOMAIN tools
    /\ registry' =
         [registry EXCEPT
            !.clock = @ + 1,
            !.rows = IF commits
                     THEN InsertAll(@, session, tools, registry.clock, failed)
                     ELSE @,
            !.first = IF commits
                      THEN FirstAfter(@, session, tools, registry.clock, failed)
                      ELSE @,
            !.last = [session |-> session, tools |-> tools,
                      committed |-> commits]]
    /\ UNCHANGED registryOthers

\* ---------------------------------------------------------------- redactor
\* ScrubberInterceptor called with any messages.
\*   totalScrubbed  the atomic counter
\*   calls          Intercept calls so far; counted: the sum of the
\*                  scrub_count metadata they set
\*   last           the last call: direction, bytes in and out, metadata,
\*                  and the counter before the call
ScrubberIdle == [pc |-> "idle"]

ScrubberStart ==
    [pc |-> "run", totalScrubbed |-> 0, calls |-> 0, counted |-> 0,
     last |-> [d |-> "", raw |-> EmptyLine, out |-> <<>>, meta |-> NilMeta,
               before |-> 0]]

\* Lines with up to MaxMatches PII matches, JSON or not.
ScrubLines ==
    { [l EXCEPT !.pii = n] :
         l \in {GarbageLine, Response("1", 0, TRUE), Response("1", 0, FALSE),
                Request("1", "tools/call", "delete_file")},
         n \in 0..MaxMatches }

scrubberOthers == <<configVars, now, cancelled, proxyVars, approvalVars,
                    evalVars, chainRun, life, store, bus, ta, registry,
                    downStdin>>

\* The counter counts redacted messages.
AddOnePerMessage(total, count) == IF count > 0 THEN total + 1 ELSE total

\* if count > 0 { s.totalScrubbed.Add(int64(count)) }
AddScrubbed(total, count) == IF count > 0 THEN total + count ELSE total

\* ScrubberInterceptor.Intercept with its effect on totalScrubbed.
ScrubCall(d, raw) ==
    /\ scrubber.pc = "run"
    /\ scrubber.calls < MaxScrubCalls
    /\ LET msg == InterceptedMessage(d, raw)
           r == ScrubberIntercept(msg)
           count == IF scrubEnabled /\ d = DirServerToHost
                    THEN scrubJSON(raw).count ELSE 0
       IN scrubber' =
            [scrubber EXCEPT
               !.calls = @ + 1,
               !.totalScrubbed = AddScrubbed(@, count),
               !.counted = @ + MetaNumber(r.meta, MetaKeyScrubCount),
               !.last = [d |-> d, raw |-> raw, out |-> r.out,
                         meta |-> r.meta, before |-> scrubber.totalScrubbed]]
    /\ UNCHANGED scrubberOthers

SidesIdle ==
    /\ ta = TAIdle
    /\ registry = RegistryIdle
    /\ scrubber = ScrubberIdle

\* ------------------------------------------------------------ specification
Init ==
    /\ rules = DefaultRules
    /\ scrubEnabled \in BOOLEAN
    /\ now = 0
    /\ cancelled = FALSE
    /\ pump = [d \in Directions |-> "scan"]
    /\ inLog = [d \in Directions |-> <<>>]
    /\ outcome = [d \in Directions |-> <<>>]
    /\ cur = [d \in Directions |-> Idle]
    /\ childStdin = <<>>
    /\ downStdin = "open"
    /\ hostStdout = <<>>
    /\ pending = {}
    /\ nextID = 0
    /\ tickets = <<>>
    /\ lastAppr = [d \in Directions |-> NoCall]
    /\ evIn = [direction |-> DirHostToServer, method |-> "", toolName |-> "",
               payload |-> [marks |-> {}]]
    /\ evOut = NoEval
    /\ logged = [d \in Directions |-> <<>>]
    /\ chainRun = ChainIdle
    /\ life = LifeIdle
    /\ store = StoreIdle
    /\ bus = BusIdle
    /\ SidesIdle

Next ==
    \/ \E d \in Directions : PumpScan(d)
    \/ \E d \in Directions : PumpEOF(d)
    \/ \E d \in Directions : PumpDecision(d)
    \/ \E d \in Directions : PumpCancelled(d)
    \/ \E id \in 1..(nextID + 1), approved \in BOOLEAN : Resolve(id, approved)
    \/ \E id \in DOMAIN tickets : TimerFire(id)
    \/ Cancel

Spec == Init /\ [][Next]_vars

\* The two pumps and the close of the child's stdin that follows the return
\* of the host pump.
NextPipe ==
    \/ \E d \in Directions : PumpScan(d)
    \/ \E d \in Directions : PumpEOF(d)
    \/ \E d \in Directions : PumpDecision(d)
    \/ \E d \in Directions : PumpCancelled(d)
    \/ \E id \in 1..(nextID + 1), approved \in BOOLEAN : Resolve(id, approved)
    \/ \E id \in DOMAIN tickets : TimerFire(id)
    \/ Cancel
    \/ CloseDownStdin

SpecPipe == Init /\ [][NextPipe]_vars

\* The policy engine on its own: any rule list, any message attributes.
InitEval ==
    /\ rules \in RuleLists
    /\ evIn \in EvalInputs
    /\ evOut = NoEval
    /\ scrubEnabled = FALSE
    /\ now = 0
    /\ cancelled = FALSE
    /\ pump = [d \in Directions |-> "returned"]
    /\ inLog = [d \in Directions |-> <<>>]
    /\ outcome = [d \in Directions |-> <<>>]
    /\ cur = [d \in Directions |-> Idle]
    /\ childStdin = <<>>
    /\ downStdin = "open"
    /\ hostStdout = <<>>
    /\ pending = {}
    /\ nextID = 0
    /\ tickets = <<>>
    /\ lastAppr = [d \in Directions |-> NoCall]
    /\ logged = [d \in Directions |-> <<>>]
    /\ chainRun = ChainIdle
    /\ life = LifeIdle
    /\ store = StoreIdle
    /\ bus = BusIdle
    /\ SidesIdle

NextEval == EvaluateCall

SpecEval == InitEval /\ [][NextEval]_vars

\* The two pumps at rest: the state in which a component is run on its own.
PumpsAtRest ==
    /\ rules = DefaultRules
    /\ now = 0
    /\ cancelled = FALSE
    /\ pump = [d \in Directions |-> "returned"]
    /\ inLog = [d \in Directions |-> <<>>]
    /\ outcome = [d \in Directions |-> <<>>]
    /\ cur = [d \in Directions |-> Idle]
    /\ childStdin = <<>>
    /\ downStdin = "open"
    /\ hostStdout = <<>>
    /\ pending = {}
    /\ nextID = 0
    /\ tickets = <<>>
    /\ lastAppr = [d \in Directions |-> NoCall]
    /\ logged = [d \in Directions |-> <<>>]
    /\ evIn = [direction |-> DirHostToServer, method |-> "", toolName |-> "",
               payload |-> [marks |-> {}]]
    /\ evOut = NoEval

ProxyIdle == scrubEnabled = FALSE /\ PumpsAtRest

\* InterceptorChain.Process on any chain of up to MaxChain interceptors.
InitChain ==
    /\ ProxyIdle
    /\ chainRun \in { ChainStart(cfg) : cfg \in Chains }
    /\ life = LifeIdle
    /\ store = StoreIdle
    /\ bus = BusIdle
    /\ SidesIdle

NextChain == ChainStep \/ ChainReturn

SpecChain == InitChain /\ [][NextChain]_vars

\* main and Proxy.Run with a host and a subprocess that do as they please.
InitRun ==
    /\ ProxyIdle
    /\ chainRun = ChainIdle
    /\ life = LifeStart
    /\ store = StoreIdle
    /\ bus = BusIdle
    /\ SidesIdle

NextRun ==
    \/ HostLine \/ HostLineTooLong \/ HostCloses \/ HostPumpEOF
    \/ ChildWrites \/ ServerLine
    \/ ServerLineTooLong \/ ServerLineAfterCancel \/ ServerPumpEOF
    \/ ChildExits \/ Signal \/ KillChild
    \/ RunWaitReturns \/ RunReturns \/ MainExitsOnError \/ MainReturns

\* The proxy's own goroutines and the operating system take the steps they
\* can take; the host and the subprocess owe nothing.
FairnessRun ==
    /\ WF_vars(HostPumpEOF) /\ WF_vars(ServerPumpEOF) /\ WF_vars(KillChild)
    /\ WF_vars(ServerLine) /\ WF_vars(ServerLineAfterCancel)
    /\ WF_vars(RunWaitReturns) /\ WF_vars(RunReturns)
    /\ WF_vars(MainExitsOnError) /\ WF_vars(MainReturns)

SpecRun == InitRun /\ [][NextRun]_vars /\ FairnessRun

\* The store under any callers.
InitStore ==
    /\ ProxyIdle
    /\ chainRun = ChainIdle
    /\ life = LifeIdle
    /\ store = StoreOpen
    /\ bus = BusIdle
    /\ SidesIdle

NextStore ==
    \/ LogMessage \/ WriterReceives \/ WriterTicks \/ WriterSeesClose
    \/ CloseCalled \/ CloseReturns

SpecStore == InitStore /\ [][NextStore]_vars

\* The event bus under both pumps and any subscribers.
InitBus ==
    /\ ProxyIdle
    /\ chainRun = ChainIdle
    /\ life = LifeIdle
    /\ store = StoreIdle
    /\ bus = BusOpen
    /\ SidesIdle

NextBus ==
    \/ \E id \in SubIds : Subscribe(id) \/ Unsubscribe(id) \/ Receive(id)
    \/ \E d \in Directions :
          \/ PublishBegin(d)
          \/ \E id \in SubIds : PublishSend(d, id)
          \/ PublishEnd(d)

SpecBus == InitBus /\ [][NextBus]_vars

\* The tool analytics interceptor under any traffic, store and clock.
InitTools ==
    /\ ProxyIdle
    /\ chainRun = ChainIdle
    /\ life = LifeIdle
    /\ store = StoreIdle
    /\ bus = BusIdle
    /\ registry = RegistryIdle
    /\ scrubber = ScrubberIdle
    /\ ta \in { TAStart(cfg) : cfg \in {c \in PruneConfigs : c.KeepTopK < 2} }

NextTools ==
    \/ \E raw \in HostPayloads :
          TAIntercept(DirHostToServer, raw, NoUsage, "")
    \/ \E raw \in ServerPayloads :
          \E counts \in CountSamples :
             \E storeErr \in {"", "register", "counts"} :
                TAIntercept(DirServerToHost, raw, counts, storeErr)
    \/ FiveMinutesPass
    \/ cleanupLoop

SpecTools == InitTools /\ [][NextTools]_vars

\* ------------------------------ tools/list tracking across the two pumps
\* The two pumps of pipeMessages around the tool-analytics interceptor: a
\* line is scanned, the interceptors in front of it run, it runs, and the
\* result is written.  The host uses a request id once; the server replies,
\* with a result or an error, to requests it has read from its stdin.

\* The interceptor is called after the bytes were written.
StepAfterWriteFirst(pc) ==
    CASE pc = "scan" -> "write"
      [] pc = "write" -> "tools"
      [] pc = "tools" -> "scan"

\* The order of one loop iteration of pipeMessages: chain.Process, which
\* reaches the tool-analytics interceptor, and then dst.Write.
StepAfter(pc) ==
    CASE pc = "scan" -> "tools"
      [] pc = "tools" -> "write"
      [] pc = "write" -> "scan"

\* What the interceptors in front of tool analytics (policy, redactor,
\* approval) return for a message.
Verdicts == {"forward", "blocked", "dropped"}

UsedIDs == {inLog[DirHostToServer][k].id : k \in DOMAIN inLog[DirHostToServer]}

\* The lines the host sends next: an id is not reused.
FreshHostPayloads == {raw \in HostPayloads : raw.id = NoID \/ raw.id \notin UsedIDs}

\* The requests the server has read from its stdin and not replied to.
Unanswered ==
    {k \in DOMAIN childStdin :
        /\ ~childStdin[k].parseErr
        /\ childStdin[k].method # ""
        /\ childStdin[k].id # NoID
        /\ \A j \in DOMAIN inLog[DirServerToHost] :
              inLog[DirServerToHost][j].id # childStdin[k].id}

\* The server's replies to a request: a result or a JSON-RPC error.
Replies(req) ==
    { Payload(req.id, "", FALSE,
              ToolsResult(<<Tool("read_file"), Tool("write_file")>>, "c1")),
      Payload(req.id, "", TRUE, NoResult) }

trackOthers == <<configVars, now, cancelled, lastAppr, logged, approvalVars,
                 evalVars, chainRun, life, store, bus, registry, scrubber,
                 downStdin>>

\* scanner.Scan() returns a line and chain.Process runs up to the
\* tool-analytics interceptor; an unparseable line is written at once.
TrackLine(d, raw, verdict) ==
    /\ pump[d] = "scan"
    /\ inLog' = [inLog EXCEPT ![d] = Append(@, raw)]
    /\ IF raw.parseErr
       THEN /\ outcome' = [outcome EXCEPT ![d] = Append(@, "unparsed")]
            /\ childStdin' = IF d = DirHostToServer
                             THEN Append(childStdin, raw) ELSE childStdin
            /\ hostStdout' = IF d = DirServerToHost
                             THEN Append(hostStdout, raw) ELSE hostStdout
            /\ UNCHANGED <<pump, cur>>
       ELSE /\ outcome' = [outcome EXCEPT ![d] = Append(@, verdict)]
            /\ IF verdict = "forward"
               THEN /\ pump' = [pump EXCEPT ![d] = StepAfter("scan")]
                    /\ cur' = [cur EXCEPT ![d] = [busy |-> TRUE, raw |-> raw]]
                    /\ UNCHANGED <<childStdin, hostStdout>>
               ELSE /\ childStdin' =
                         IF /\ verdict = "blocked"
                            /\ d = DirServerToHost /\ raw.id # NoID
                         THEN Append(childStdin,
                                     Payload(raw.id, "", TRUE, NoResult))
                         ELSE childStdin
                    /\ hostStdout' =
                         IF /\ verdict = "blocked"
                            /\ d = DirHostToServer /\ raw.id # NoID
                         THEN Append(hostStdout,
                                     Payload(raw.id, "", TRUE, NoResult))
                         ELSE hostStdout
                    /\ UNCHANGED <<pump, cur>>
    /\ UNCHANGED <<ta, trackOthers>>

\* The host writes a line.
TrackHostLine ==
    /\ Len(inLog[DirHostToServer]) < MaxTracked
    /\ \E raw \in FreshHostPayloads :
          \E verdict \in Verdicts : TrackLine(DirHostToServer, raw, verdict)

\* The server writes its reply to a request it has read.
TrackServerLine ==
    \E k \in Unanswered :
       \E raw \in Replies(childStdin[k]) :
          \E verdict \in Verdicts : TrackLine(DirServerToHost, raw, verdict)

\* chain.Process reaches the tool-analytics interceptor.
TrackTools(d) ==
    /\ pump[d] = "tools"
    /\ TACall(Alone(d, cur[d].raw), NoUsage, "")
    /\ pump' = [pump EXCEPT ![d] = StepAfter("tools")]
    /\ cur' = [cur EXCEPT ![d] =
                 IF StepAfter("tools") = "write"
                 THEN [busy |-> TRUE, raw |-> ta'.last.res.out] ELSE Idle]
    /\ UNCHANGED <<inLog, outcome, childStdin, hostStdout, trackOthers>>

\* dst.Write(append(result, '\n')).
TrackWrite(d) ==
    /\ pump[d] = "write"
    /\ childStdin' = IF d = DirHostToServer
                     THEN Append(childStdin, cur[d].raw) ELSE childStdin
    /\ hostStdout' = IF d = DirServerToHost
                     THEN Append(hostStdout, cur[d].raw) ELSE hostStdout
    /\ pump' = [pump EXCEPT ![d] = StepAfter("write")]
    /\ cur' = [cur EXCEPT ![d] =
                 IF StepAfter("write") = "scan" THEN Idle ELSE @]
    /\ UNCHANGED <<ta, inLog, outcome, trackOthers>>

InitTrack ==
    /\ scrubEnabled = FALSE
    /\ rules = DefaultRules
    /\ now = 0
    /\ cancelled = FALSE
    /\ pump = [d \in Directions |-> "scan"]
    /\ inLog = [d \in Directions |-> <<>>]
    /\ outcome = [d \in Directions |-> <<>>]
    /\ cur = [d \in Directions |-> Idle]
    /\ childStdin = <<>>
    /\ downStdin = "open"
    /\ hostStdout = <<>>
    /\ pending = {}
    /\ nextID = 0
    /\ tickets = <<>>
    /\ lastAppr = [d \in Directions |-> NoCall]
    /\ logged = [d \in Directions |-> <<>>]
    /\ evIn = [direction |-> DirHostToServer, method |-> "", toolName |-> "",
               payload |-> [marks |-> {}]]
    /\ evOut = NoEval
    /\ chainRun = ChainIdle
    /\ life = LifeIdle
    /\ store = StoreIdle
    /\ bus = BusIdle
    /\ registry = RegistryIdle
    /\ scrubber = ScrubberIdle
    /\ ta = TAStart([UnusedSessions |-> 0, KeepTopK |-> 1,
                     AlwaysKeep |-> {}])

NextTrack ==
    \/ TrackHostLine
    \/ TrackServerLine
    \/ \E d \in Directions : TrackTools(d)
    \/ \E d \in Directions : TrackWrite(d)
    \/ FiveMinutesPass
    \/ cleanupLoop

SpecTrack == InitTrack /\ [][NextTrack]_vars

\* ------------------------- the redactor and the pruner on one response
\* A tools/list response on its way through the chain main builds: the
\* redactor first, tool analytics after it.

\* A tool whose description holds pii matches of a PII pattern, red of them
\* replaced by a redaction marker.
Described(name, pii) ==
    [name |-> name, parses |-> TRUE, pii |-> pii, red |-> 0]

DescribedLists ==
    { <<Described("read_file", 1), Described("write_file", 0)>>,
      <<Described("read_file", 0), Described("write_file", 1)>>,
      <<Described("read_file", 0), Described("write_file", 0)>>,
      <<Described("read_file", 1)>> }

ListResponses ==
    { Payload(id, "", FALSE, ToolsResult(tools, "c1")) :
         id \in ListIDs, tools \in DescribedLists }

\* The PII matches left in the string leaves of a tools array.
RECURSIVE Matches(_)
Matches(tools) ==
    IF tools = <<>> THEN 0 ELSE Head(tools).pii + Matches(Tail(tools))

\* walkAndScrub on the parsed bytes of a response: every match in every
\* string leaf becomes a marker.
walkAndScrub(raw) ==
    IF raw.result.kind # "tools" THEN [bytes |-> raw, count |-> 0]
    ELSE LET tools == raw.result.tools
             scrubbed == [i \in DOMAIN tools |->
                            [tools[i] EXCEPT !.pii = 0,
                                             !.red = tools[i].red + tools[i].pii]]
         IN [bytes |-> [raw EXCEPT !.result.tools = scrubbed],
             count |-> Matches(tools)]

\* ScrubberInterceptor.Intercept on a response.
ScrubList(msg) ==
    IF ~scrubEnabled THEN Returns(<<msg.RawBytes>>, NoErr, msg.Metadata)
    ELSE IF msg.Direction # DirServerToHost
    THEN Returns(<<msg.RawBytes>>, NoErr, msg.Metadata)
    ELSE LET s == walkAndScrub(msg.RawBytes)
         IN Returns(<<s.bytes>>, NoErr,
                    IF s.count > 0
                    THEN MetaSet(msg.Metadata, MetaKeyScrubCount, s.count)
                    ELSE msg.Metadata)

redactOthers == <<configVars, now, cancelled, pump, inLog, cur, childStdin,
                  outcome, lastAppr, logged, approvalVars, evalVars, chainRun,
                  life, store, bus, registry, scrubber, downStdin>>

\* The host's tools/list request goes through the chain.
ListRequest(id) ==
    /\ id \notin ta.pendingIDs
    /\ TACall(Alone(DirHostToServer, Payload(id, "tools/list", FALSE, NoResult)),
              NoUsage, "")
    /\ UNCHANGED <<hostStdout, redactOthers>>

\* One iteration of the server->host pump on a response: ParseMessage,
\* chain.Process (the redactor, then tool analytics, each handed the bytes
\* the one before returned) and the write to host-stdout.
ListResponse(raw, counts) ==
    /\ Len(hostStdout) < MaxLines
    /\ LET parsed == Alone(DirServerToHost, raw)
           r == ScrubList(parsed)
           msg == [parsed EXCEPT !.RawBytes = r.out[1], !.Metadata = r.meta]
       IN /\ TACall(msg, counts, "")
          /\ hostStdout' = Append(hostStdout,
                                  [bytes |-> ta'.last.res.out,
                                   meta |-> ta'.last.res.meta])
    /\ UNCHANGED redactOthers

InitRedact ==
    /\ scrubEnabled = TRUE
    /\ PumpsAtRest
    /\ chainRun = ChainIdle
    /\ life = LifeIdle
    /\ store = StoreIdle
    /\ bus = BusIdle
    /\ registry = RegistryIdle
    /\ scrubber = ScrubberIdle
    /\ ta \in { TAStart(cfg) : cfg \in {c \in PruneConfigs : c.KeepTopK < 2} }

NextRedact ==
    \/ \E id \in ListIDs : ListRequest(id)
    \/ \E raw \in ListResponses :
          \E counts \in CountSamples : ListResponse(raw, counts)

SpecRedact == InitRedact /\ [][NextRedact]_vars

\* applyPruning on its own.
InitPrune ==
    /\ ProxyIdle
    /\ chainRun = ChainIdle
    /\ life = LifeIdle
    /\ store = StoreIdle
    /\ bus = BusIdle
    /\ registry = RegistryIdle
    /\ scrubber = ScrubberIdle
    /\ ta \in { PruneStart(cfg, tools, counts) :
                  cfg \in PruneConfigs, tools \in ToolLists,
                  counts \in UsageCounts }

NextPrune == PruneCall

SpecPrune == InitPrune /\ [][NextPrune]_vars

\* The tool registry under any RegisterTools calls.
InitRegistry ==
    /\ ProxyIdle
    /\ chainRun = ChainIdle
    /\ life = LifeIdle
    /\ store = StoreIdle
    /\ bus = BusIdle
    /\ ta = TAIdle
    /\ scrubber = ScrubberIdle
    /\ registry = RegistryOpen

NextRegistry ==
    \E session \in Sessions : \E tools \in RecordLists :
       \E failed \in {{}, {1}} : \E commits \in BOOLEAN :
          RegisterTools(session, tools, failed, commits)

SpecRegistry == InitRegistry /\ [][NextRegistry]_vars

\* The redactor, enabled or not, under any messages of both directions.
InitScrub ==
    /\ PumpsAtRest
    /\ scrubEnabled \in BOOLEAN
    /\ chainRun = ChainIdle
    /\ life = LifeIdle
    /\ store = StoreIdle
    /\ bus = BusIdle
    /\ ta = TAIdle
    /\ registry = RegistryIdle
    /\ scrubber = ScrubberStart

NextScrub == \E d \in Directions : \E raw \in ScrubLines : ScrubCall(d, raw)

SpecScrub == InitScrub /\ [][NextScrub]_vars

\* The scheduler runs a goroutine that can take a step: a timeout goroutine
\* whose timer has fired, and an interceptor whose select has a ready case.
\* The select of the approval interceptor has a ready case: a decision sits
\* in the ticket's channel, or the context is done.
SelectReady(d) ==
    /\ pump[d] = "await"
    /\ cancelled \/ tickets[cur[d].ticket].done # <<>>

\* The select returns: the step PumpDecision(d) or PumpCancelled(d), seen at
\* the pump's position only.
SelectReturns(d) == SelectReady(d) /\ pump' = [pump EXCEPT ![d] = "scan"]

Fairness ==
    /\ \A id \in 1..MaxTickets : WF_vars(TimerFire(id))
    /\ \A d \in Directions : WF_pump(SelectReturns(d))

PumpScanLive(d) == PumpRead(d, ApprovalTraffic(d))

NextLive ==
    \/ \E d \in Directions : PumpScanLive(d)
    \/ \E d \in Directions : PumpEOF(d)
    \/ \E d \in Directions : PumpDecision(d)
    \/ \E d \in Directions : PumpCancelled(d)
    \/ \E id \in 1..(nextID + 1), approved \in BOOLEAN : Resolve(id, approved)
    \/ \E id \in DOMAIN tickets : TimerFire(id)
    \/ Cancel

\* None of this traffic carries PII: the scrubber is left off.
InitLive == Init /\ ~scrubEnabled

SpecLive == InitLive /\ [][NextLive]_vars /\ Fairness

\* ------------------------------------------------------------------ claims
Stream(side) == IF side = "child" THEN childStdin ELSE hostStdout

\* The Write calls that line idx of pump d caused on a stream.
EntriesBy(stream, d, idx) ==
    SelectSeq(stream, LAMBDA e : e.by = d /\ e.idx = idx)

\* What pump d has written to its far endpoint.
Forwarded(d) == SelectSeq(Stream(FarSide(d)), LAMBDA e : e.by = d)

Bytes(entries) == [i \in DOMAIN entries |-> entries[i].bytes]

\* C1: when the chain blocks a host->server message, nothing is written to
\* child-stdin for it, and one error response with code -32600 and the
\* message's id is written to host-stdout if it had an id, none otherwise.
C1_BlockedHostMessage ==
    \A idx \in DOMAIN outcome[DirHostToServer] :
        outcome[DirHostToServer][idx].res = "blocked" =>
            LET id == inLog[DirHostToServer][idx].id
                back == EntriesBy(hostStdout, DirHostToServer, idx)
            IN /\ EntriesBy(childStdin, DirHostToServer, idx) = <<>>
               /\ IF id = NoID THEN back = <<>>
                  ELSE /\ Len(back) = 1
                       /\ back[1].bytes.body = "error_response"
                       /\ back[1].bytes.code = -32600
                       /\ back[1].bytes.id = id
                       /\ back[1].nl = 1

C1_Witness ==
    \E idx \in DOMAIN outcome[DirHostToServer] :
        /\ outcome[DirHostToServer][idx].res = "blocked"
        /\ inLog[DirHostToServer][idx].id # NoID
        /\ Len(EntriesBy(hostStdout, DirHostToServer, idx)) = 1

\* C2: at most one Resolve call per ticket returns success; a Resolve for an
\* id that was never submitted, is already resolved or has timed out returns
\* not-found and changes no state.
C2_ResolveAtMostOnce ==
    /\ [](/\ \A id \in DOMAIN tickets : tickets[id].resolved <= 1
          /\ \A id \in 1..(nextID + 1) :
                (id \notin DOMAIN tickets \/ tickets[id].Decision # DecisionPending)
                    => ResolveReturn(id) = "not found")
    /\ [][UNCHANGED <<pending, nextID, tickets, now>>
          \/ \A id \in 1..(nextID + 1), approved \in BOOLEAN :
                ~(Resolve(id, approved) /\ ResolveReturn(id) = "not found")]_vars

C2_Witness ==
    \E id \in DOMAIN tickets :
        /\ tickets[id].resolved = 1
        /\ ResolveReturn(id) = "not found"
        /\ ResolveReturn(nextID + 1) = "not found"

\* C3: whichever of Resolve and the timer first finds the ticket pending
\* removes it and puts exactly one decision on its channel; the loser sends
\* nothing and leaves decision and decided_at as they are; the channel never
\* gets a second value and no send is dropped.
TicketDecidedOnce(t) ==
    /\ Len(t.done) <= DoneCap
    /\ t.drops = 0
    /\ t.sends = t.resolved + t.expired
    /\ t.sends <= 1
    /\ (t.ID \in pending) = (t.sends = 0)
    /\ (t.ID \in pending) = (t.Decision = DecisionPending)
    /\ (t.resolved = 1) = (t.Decision \in {DecisionApproved, DecisionDenied})
    /\ (t.expired = 1) = (t.Decision = DecisionTimeout)
    /\ (t.done # <<>> => t.done[1] = t.Decision)

C3_ExactlyOneDecision ==
    /\ [](\A id \in DOMAIN tickets : TicketDecidedOnce(tickets[id]))
    /\ [][\A id \in DOMAIN tickets :
            tickets[id].Decision # DecisionPending
                => /\ tickets'[id].Decision = tickets[id].Decision
                   /\ tickets'[id].DecidedAt = tickets[id].DecidedAt
                   /\ tickets'[id].sends = tickets[id].sends]_vars

\* The timer has lost the race against a Resolve.
C3_Witness ==
    \E id \in DOMAIN tickets :
        /\ tickets[id].resolved = 1
        /\ tickets[id].timer = "done"
        /\ tickets[id].sends = 1

\* Lines of pump d, so far, for which the policy asks for approval and that
\* were not given up on cancellation.
ApprovalLines(d) ==
    { idx \in DOMAIN inLog[d] :
        /\ outcome[d][idx].res # "aborted"
        /\ inLog[d][idx].body = "object"
        /\ NeedsApproval([Metadata |->
              PolicyIntercept(InterceptedMessage(d, inLog[d][idx])).meta]) }

NoTicketWithoutApproval ==
    nextID = Cardinality(ApprovalLines(DirHostToServer))
             + Cardinality(ApprovalLines(DirServerToHost))

PassedUnchanged(c) ==
    c.action # ActionRequireApproval
        => c.ticket = 0 /\ c.out = <<c.in>> /\ c.err = NoErr

FollowsDecision(c, decision) ==
    CASE decision = DecisionApproved -> c.out = <<c.in>> /\ c.err = NoErr
      [] decision = DecisionDenied ->
            c.out = <<>> /\ c.err = Err("denied by human review", c.rule)
      [] decision = DecisionTimeout ->
            c.out = <<>> /\ c.err.why = "approval timed out"
      [] OTHER -> TRUE

\* C4 (as claimed): the approval interceptor's result follows the ticket's
\* decision: approved gives the bytes unchanged and no error, denied gives
\* no bytes and an error naming the rule, a fired timer gives no bytes and a
\* 'timed out' error; a message without policy_action = require_approval
\* creates no ticket and is returned unchanged.
C4_ResultFollowsTicket ==
    /\ NoTicketWithoutApproval
    /\ \A d \in Directions :
        lastAppr[d].called =>
            /\ PassedUnchanged(lastAppr[d])
            /\ lastAppr[d].ticket # 0 =>
                  FollowsDecision(lastAppr[d],
                                  tickets[lastAppr[d].ticket].Decision)

\* C4 (amended): when the interceptor's wait ends with the decision received
\* from the ticket's channel, that decision is the ticket's and the result
\* follows it as claimed; when the wait ends on cancellation of the caller's
\* scope the result is no bytes and a cancellation error, whatever the
\* ticket's decision is or becomes.  A message without policy_action =
\* require_approval creates no ticket and is returned unchanged.
C4_ResultFollowsReceivedDecision ==
    /\ NoTicketWithoutApproval
    /\ \A d \in Directions :
        lastAppr[d].called =>
            /\ PassedUnchanged(lastAppr[d])
            /\ lastAppr[d].action = ActionRequireApproval =>
                  /\ lastAppr[d].ticket \in DOMAIN tickets
                  /\ lastAppr[d].via \in {"decision", "cancel"}
                  /\ lastAppr[d].via = "decision" =>
                        /\ lastAppr[d].decision =
                               tickets[lastAppr[d].ticket].Decision
                        /\ lastAppr[d].decision # DecisionPending
                        /\ FollowsDecision(lastAppr[d], lastAppr[d].decision)
                  /\ lastAppr[d].via = "cancel" =>
                        /\ lastAppr[d].out = <<>>
                        /\ lastAppr[d].err.why =
                               "context cancelled while awaiting approval"

\* The interceptor has returned on a timeout and, in the other direction,
\* has passed a message that needs no approval.
C4_Witness ==
    \E d \in Directions :
        /\ lastAppr[d].called
        /\ lastAppr[d].action = ActionRequireApproval
        /\ lastAppr[d].via = "decision"
        /\ lastAppr[d].decision = DecisionTimeout
        /\ \E e \in Directions :
            lastAppr[e].called /\ lastAppr[e].action # ActionRequireApproval

\* C5: when the caller's scope is cancelled while the approval interceptor
\* waits, the interceptor fails with a cancellation error and, once it has
\* returned, its ticket is no longer in the pending set.
C5_TicketRemovedOnCancel ==
    \A d \in Directions :
        (lastAppr[d].called /\ lastAppr[d].ticket # 0
         /\ lastAppr[d].via = "cancel") =>
            /\ lastAppr[d].err.why = "context cancelled while awaiting approval"
            /\ lastAppr[d].ticket \notin pending

\* C6: every call of the approval interceptor on a require_approval message
\* eventually returns even if nobody calls Resolve, and every submitted
\* ticket eventually leaves the pending set.
\* (P ~> ~P is []<>~P: a state where P is false satisfies <>~P at once.)
C6_InterceptorReturns ==
    /\ \A d \in Directions : []<>(pump[d] # "await")
    /\ \A id \in 1..MaxTickets : []<>(id \notin pending)

\* The timer alone has decided a ticket and the interceptor has returned.
C6_Witness ==
    \E d \in Directions :
        /\ lastAppr[d].called
        /\ lastAppr[d].ticket # 0
        /\ lastAppr[d].decision = DecisionTimeout
        /\ tickets[lastAppr[d].ticket].resolved = 0
        /\ pump[d] # "await"
        /\ pending = {}

\* C7: Evaluate's final action is the highest-precedence action among the
\* matching rules (deny > require_approval > audit > none), whatever the
\* order in which the rules are listed.
Precedence(a) ==
    CASE a = ActionDeny -> 3
      [] a = ActionRequireApproval -> 2
      [] a = ActionAudit -> 1
      [] OTHER -> 0

MatchingActions(ruleList, in) ==
    { ruleList[i].action : i \in
        { j \in DOMAIN ruleList :
            ruleMatches(ruleList[j], in.direction, in.method, in.toolName,
                        in.payload) } }

HighestAction(actions) ==
    IF actions = {} THEN ActionNone
    ELSE CHOOSE a \in actions :
            \A b \in actions : Precedence(b) <= Precedence(a)

Reorderings(ruleList) ==
    { [i \in DOMAIN ruleList |-> ruleList[p[i]]] :
        p \in { q \in [DOMAIN ruleList -> DOMAIN ruleList] :
                  \A i, j \in DOMAIN ruleList : i # j => q[i] # q[j] } }

C7_HighestPrecedence ==
    evOut.done =>
        /\ evOut.result.Action = HighestAction(MatchingActions(rules, evIn))
        /\ \A other \in Reorderings(rules) :
              Evaluate(other, evIn.direction, evIn.method, evIn.toolName,
                       evIn.payload).Action = evOut.result.Action

\* A deny rule is followed in the list by matching rules of lower precedence.
C7_Witness ==
    /\ evOut.done
    /\ Len(rules) = 3
    /\ Cardinality(MatchingActions(rules, evIn)) = 3
    /\ rules[1].action = ActionRequireApproval
    /\ rules[2].action = ActionAudit
    /\ evOut.result.Action = ActionDeny

\* C8: within one direction the lines written to the far endpoint are an
\* order-preserving subsequence (after rewriting) of the lines read: none is
\* written before an earlier one, none is written twice.
C8_OrderPreserved ==
    \A d \in Directions :
        /\ \A i, j \in DOMAIN Forwarded(d) :
              i < j => Forwarded(d)[i].idx < Forwarded(d)[j].idx
        /\ \A i \in DOMAIN Forwarded(d) :
              /\ Forwarded(d)[i].idx \in DOMAIN inLog[d]
              /\ Forwarded(d)[i].bytes \in
                    { inLog[d][Forwarded(d)[i].idx],
                      scrubJSON(inLog[d][Forwarded(d)[i].idx]).bytes }

\* Two lines of one direction have been forwarded, one of them after an
\* approval.
C8_Witness ==
    \E d \in Directions :
        /\ Len(Forwarded(d)) = 2
        /\ \E i \in DOMAIN outcome[d] :
              outcome[d][i].res = "forward" /\ i \in ApprovalLines(d)

\* Every line read so far was handled to the end, and no interceptor
\* rewrote, dropped or blocked any of them.
Untouched(d) ==
    \A idx \in DOMAIN outcome[d] :
        /\ outcome[d][idx].res \in {"empty", "unparsed", "forward"}
        /\ outcome[d][idx].rewrites = 0

\* C9 (as claimed): when no interceptor modifies or blocks, the lines
\* emitted on the far side equal the input lines, each followed by one
\* newline.
C9_OutputEqualsInput ==
    \A d \in Directions :
        Untouched(d) =>
            /\ Bytes(Forwarded(d)) = inLog[d]
            /\ \A i \in DOMAIN Forwarded(d) : Forwarded(d)[i].nl = 1

\* C9 (amended): when no interceptor modifies or blocks, the lines emitted
\* on the far side equal the non-empty input lines, each followed by one
\* newline; an empty input line is skipped.
C9_OutputEqualsNonEmptyInput ==
    \A d \in Directions :
        Untouched(d) =>
            /\ Bytes(Forwarded(d)) =
                  SelectSeq(inLog[d], LAMBDA l : l.body # "empty")
            /\ \A i \in DOMAIN Forwarded(d) : Forwarded(d)[i].nl = 1

\* An empty line was skipped and the object after it was forwarded as read.
C9_Witness ==
    \E d \in Directions :
        /\ Untouched(d)
        /\ Len(inLog[d]) = 2
        /\ inLog[d][1].body = "empty"
        /\ inLog[d][2].body = "object"
        /\ Bytes(Forwarded(d)) = << inLog[d][2] >>

\* C10: a line that fails JSON-RPC parsing is written verbatim plus newline
\* to the far endpoint exactly once, in arrival order, without passing the
\* chain; it is not blocked or dropped and no error response is made for it.
C10_UnparseableForwarded ==
    \A d \in Directions : \A idx \in DOMAIN outcome[d] :
        outcome[d][idx].res = "unparsed" =>
            /\ ParseMessage(inLog[d][idx]).err
            /\ EntriesBy(Stream(FarSide(d)), d, idx)
                  = << Entry(inLog[d][idx], d, idx) >>
            /\ EntriesBy(Stream(NearSide(d)), d, idx) = <<>>
            /\ \A i \in DOMAIN Forwarded(d) :
                  \/ Forwarded(d)[i].idx = idx
                  \/ (Forwarded(d)[i].idx < idx) =
                        (\E j \in DOMAIN Forwarded(d) :
                            j > i /\ Forwarded(d)[j].idx = idx)

\* An unparseable line carrying PII went out after an earlier line, with the
\* scrubber enabled.
C10_Witness ==
    \E idx \in DOMAIN outcome[DirServerToHost] :
        /\ scrubEnabled
        /\ idx > 1
        /\ outcome[DirServerToHost][idx].res = "unparsed"
        /\ inLog[DirServerToHost][idx].pii > 0
        /\ Len(Forwarded(DirServerToHost)) = 2

\* The last interceptor the chain invoked ended the processing.
Ended(ch) ==
    ch.seen # <<>> /\ ch.cfg[Len(ch.seen)].kind \in {"drop", "block"}

\* C11: the chain invokes its interceptors strictly in declared order, each
\* at most once; once one returns (nil, nil) or (nil, error) no later one is
\* invoked and the chain returns nil bytes with that same error (no error
\* for a drop).
C11_ChainOrderAndStop ==
    chainRun.pc # "idle" =>
        /\ Len(chainRun.seen) <= Len(chainRun.cfg)
        /\ \A k \in DOMAIN chainRun.seen :
              /\ chainRun.seen[k].who = k
              /\ k < Len(chainRun.seen) =>
                    chainRun.cfg[k].kind \in {"pass", "rewrite"}
        /\ chainRun.pc = "done" =>
              IF Ended(chainRun)
              THEN /\ chainRun.out = <<>>
                   /\ chainRun.err = chainRun.seen[Len(chainRun.seen)].err
                   /\ (chainRun.cfg[Len(chainRun.seen)].kind = "drop")
                         = (chainRun.err = NoErr)
              ELSE /\ Len(chainRun.seen) = Len(chainRun.cfg)
                   /\ chainRun.out # <<>>
                   /\ chainRun.err = NoErr

\* A drop in the middle of a chain of three.
C11_Witness ==
    /\ chainRun.pc = "done"
    /\ Len(chainRun.cfg) = 3
    /\ Len(chainRun.seen) = 2
    /\ chainRun.cfg[2].kind = "drop"
    /\ chainRun.cfg[1].kind = "rewrite"

\* C12: the bytes interceptor i returns are the RawBytes interceptor i+1
\* sees, and a metadata key an earlier interceptor wrote is present with the
\* same value when each later interceptor runs, also across a rewrite.
C12_BytesAndMetadataCarried ==
    chainRun.pc # "idle" =>
        \A k \in DOMAIN chainRun.seen :
            /\ k > 1 => chainRun.seen[k].raw = chainRun.seen[k - 1].out[1]
            /\ k = 1 => chainRun.seen[k].raw = chainRun.orig
            /\ \A j \in 1..(k - 1) :
                  \A key \in DOMAIN chainRun.seen[j].metaOut :
                      /\ key \in DOMAIN chainRun.seen[k].meta
                      /\ chainRun.seen[k].meta[key] = chainRun.seen[j].metaOut[key]
            /\ chainRun.cfg[k].writes =>
                  ToString(k) \in DOMAIN chainRun.seen[k].metaOut

\* The first interceptor wrote a key, the second rewrote the bytes, the
\* third ran.
C12_Witness ==
    /\ Len(chainRun.seen) = 3
    /\ chainRun.cfg[1].writes
    /\ chainRun.cfg[2].kind = "rewrite"
    /\ chainRun.seen[3].raw # chainRun.orig
    /\ ToString(1) \in DOMAIN chainRun.seen[3].meta

\* C13: if a pump returns a fatal error (line over the limit, write error)
\* while the subprocess is still running, the scope is cancelled and Run
\* eventually returns.
C13_RunReturnsOnPumpError ==
    \A which \in {"hostPump", "serverPump"} :
        (life.pc # "idle" /\ life[which] = "fatal" /\ life.child = "running")
            ~> (life.pc # "idle" /\ life.scope
                /\ life.pc \in {"returned", "exited"})

\* C14: once the subprocess has exited or the external scope is cancelled,
\* both pumps terminate and Run eventually returns, whatever the host does.
C14_RunReturnsAfterExit ==
    (life.pc # "idle" /\ (life.child # "running" \/ life.sig))
        ~> (life.pc \in {"returned", "exited"})

\* C15: on every shutdown path the store is drained and closed and the
\* session is marked ended before the process exits.
C15_CleanupBeforeExit ==
    life.pc = "exited" => life.storeClosed /\ life.sessionEnded

\* The entries the logging interceptor submitted for line idx of pump d.
LoggedFor(d, idx) == SelectSeq(logged[d], LAMBDA l : l.idx = idx)

\* Lines of pump d that the policy interceptor denied.
DeniedLines(d) ==
    { idx \in DOMAIN inLog[d] :
        /\ outcome[d][idx].res = "blocked"
        /\ PolicyIntercept(InterceptedMessage(d, inLog[d][idx])).err # NoErr }

\* C16: every message the policy interceptor denies gets a log entry
\* submitted to the store with blocked = true.
C16_DeniedIsLoggedBlocked ==
    \A d \in Directions : \A idx \in DeniedLines(d) :
        \E k \in DOMAIN LoggedFor(d, idx) : LoggedFor(d, idx)[k].entry.Blocked

\* C19: every entry the logging interceptor submits has size_bytes equal to
\* the byte length of its payload, and the payload is the bytes the pump
\* writes to the far endpoint for that message.
C19_SizeIsPayloadLength ==
    \A d \in Directions : \A k \in DOMAIN logged[d] :
        /\ logged[d][k].entry.SizeBytes = ByteLen(logged[d][k].entry.Payload)
        /\ EntriesBy(Stream(FarSide(d)), d, logged[d][k].idx)
              = << Entry(logged[d][k].entry.Payload, d, logged[d][k].idx) >>
        /\ Len(LoggedFor(d, logged[d][k].idx)) = 1

\* An entry was logged for a response that the scrubber had rewritten.
C19_Witness ==
    \E k \in DOMAIN logged[DirServerToHost] :
        /\ logged[DirServerToHost][k].entry.Payload
              # inLog[DirServerToHost][logged[DirServerToHost][k].idx]
        /\ logged[DirServerToHost][k].entry.SizeBytes
              # ByteLen(inLog[DirServerToHost][logged[DirServerToHost][k].idx])
        /\ logged[DirServerToHost][k].entry.Payload.red > 0

\* A step is a LogMessage call.
LogMessageStep == store.pc # "idle" /\ store'.next = store.next + 1

EnqueuedOrDropped ==
    /\ store'.last.ret = "nil"
    /\ store'.pc = store.pc
    /\ IF Len(store.writeCh) < bufferSize
       THEN store'.writeCh = Append(store.writeCh, store.next)
       ELSE store'.writeCh = store.writeCh

C18_CloseDrains ==
    store.pc = "closed" =>
        /\ store.writer = "done"
        /\ store.writeCh = <<>> /\ store.batch = <<>>
        /\ \A id \in store.accepted :
              Len(SelectSeq(store.flushed, LAMBDA e : e = id)) = 1

\* Close was called with entries in the queue and in the batch, and has
\* returned.
C18_Witness ==
    /\ store.pc = "closed"
    /\ store.atClose.queued > 0
    /\ store.atClose.batched > 0
    /\ Len(store.flushed) = Cardinality(store.accepted)

\* Publisher d sends to subscriber id in this step.
SendStep(d, id) ==
    /\ bus.pc = "open" /\ bus.pub[d].pc = "range"
    /\ id \in bus.pub[d].todo
    /\ bus'.pub[d].pc = "range" /\ id \notin bus'.pub[d].todo

\* C20: publish never blocks; each subscriber has its own bounded buffer,
\* the entry is appended to it when it has room and dropped for that
\* subscriber alone when it is full, so a full subscriber does not keep
\* the entry from the others, and no buffer ever exceeds its capacity.
C20_PublishNeverBlocks ==
    /\ [](bus.pc = "open" =>
            \A id \in SubIds : Len(bus.subs[id].ch) <= bufSize)
    /\ [](bus.pc = "open" =>
            \A d \in Directions :
               bus.pub[d].pc = "range" =>
                  /\ \A id \in bus.pub[d].todo : ENABLED PublishSend(d, id)
                  /\ bus.pub[d].todo = {} => ENABLED PublishEnd(d))
    /\ [][\A d \in Directions : \A id \in SubIds :
            SendStep(d, id) =>
               /\ bus'.subs[id].ch =
                     IF Len(bus.subs[id].ch) < bufSize
                     THEN Append(bus.subs[id].ch, bus.pub[d].entry)
                     ELSE bus.subs[id].ch
               /\ \A o \in SubIds \ {id} : bus'.subs[o] = bus.subs[o]
               /\ bus'.pub[d].todo = bus.pub[d].todo \ {id}]_vars

\* A Publish call returned having left the entry with one subscriber and
\* dropped it for another whose buffer was and still is full.
C20_Witness ==
    /\ bus.pc = "open"
    /\ bus.last.delivered # {}
    /\ \E id \in bus.last.missed :
          bus.subs[id].active /\ Len(bus.subs[id].ch) = bufSize
    /\ \E id \in bus.last.delivered :
          bus.subs[id].active /\ bus.last.entry \in
             {bus.subs[id].ch[i] : i \in 1..Len(bus.subs[id].ch)}

\* What a subscriber has been handed in its current subscription: what it
\* took from the channel, then what the channel still holds.
Delivered(id) == bus.subs[id].rcvd \o bus.subs[id].ch

\* No entry twice, and only entries published during the subscription.
DeliveredOnceWhileSubscribed(id) ==
    LET s == Delivered(id)
    IN /\ \A i, j \in 1..Len(s) : i # j => s[i] # s[j]
       /\ \A i \in 1..Len(s) : s[i] \in bus.subs[id].seen

\* C21 (as claimed): each subscriber receives a subsequence of the events
\* published while it was subscribed, none twice, in the order in which
\* they were published (the order of the Publish calls).
C21_DeliveryInPublishOrder ==
    bus.pc # "idle" =>
       \A id \in SubIds :
          /\ DeliveredOnceWhileSubscribed(id)
          /\ LET s == Delivered(id)
             IN \A i, j \in 1..Len(s) : i < j => s[i] < s[j]

\* C21 (amended): each subscriber receives a subsequence of the events
\* published while it was subscribed, none twice; two delivered events
\* arrive in publish order whenever the Publish call of one had returned
\* before the Publish call of the other began.
C21_DeliveryInReturnedOrder ==
    bus.pc # "idle" =>
       \A id \in SubIds :
          /\ DeliveredOnceWhileSubscribed(id)
          /\ LET s == Delivered(id)
             IN \A i, j \in 1..Len(s) : i < j => s[j] \notin bus.prior[s[i]]

\* A subscriber took an entry, holds a later one published after the first
\* publish had returned, and missed a third published meanwhile.
C21_Witness ==
    /\ bus.pc = "open"
    /\ \E id \in SubIds :
          LET s == Delivered(id)
          IN /\ bus.subs[id].rcvd # <<>>
             /\ Len(s) >= 2
             /\ s[1] \in bus.prior[s[2]]
             /\ \E e \in bus.subs[id].seen \cap bus.returned :
                   \A i \in 1..Len(s) : s[i] # e

\* C22: unsubscribe removes the subscriber from the table and closes its
\* channel; no publish ever sends on a closed channel, and no event
\* published after unsubscribe returned reaches that subscriber.
C22_UnsubscribeIsSafe ==
    /\ [](bus.pc # "panicked")
    /\ [](bus.pc = "open" =>
            \A id \in SubIds :
               /\ bus.subs[id].closed => ~bus.subs[id].active
               /\ bus.subs[id].closed =>
                     \A i \in 1..Len(Delivered(id)) :
                        Delivered(id)[i] < bus.subs[id].until
               /\ \A d \in Directions :
                     bus.pub[d].pc = "range" =>
                        \A o \in bus.pub[d].todo : bus.subs[o].active)
    /\ [][\A id \in SubIds :
            bus.pc = "open" /\ bus.subs[id].active /\ ~bus'.subs[id].active
               => bus'.subs[id].closed /\ bus'.subs[id].until = bus.next]_vars

\* A subscriber that was handed an entry has unsubscribed, and a Publish
\* call made after that has returned.
C22_Witness ==
    /\ bus.pc = "open"
    /\ \E id \in SubIds :
          /\ bus.subs[id].closed
          /\ Delivered(id) # <<>>
          /\ bus.last.entry >= bus.subs[id].until
          /\ bus.last.delivered # {}

\* The name of the first rule of the list that matches the evaluated
\* message and has the given action; "" when there is none.
FirstMatching(action) ==
    LET idx == {i \in 1..Len(rules) :
                  /\ rules[i].action = action
                  /\ ruleMatches(rules[i], evIn.direction, evIn.method,
                                 evIn.toolName, evIn.payload)}
    IN IF idx = {} THEN ""
       ELSE rules[CHOOSE i \in idx : \A j \in idx : i <= j].name

\* C30: in Evaluate's result deny_rule names the first rule in list order
\* that matches with action deny, and approval_rule the first rule in list
\* order that matches with action require_approval.
C30_FirstDenyAndApprovalRule ==
    evOut.done =>
       /\ evOut.result.DenyRule = FirstMatching(ActionDeny)
       /\ evOut.result.ApprovalRule = FirstMatching(ActionRequireApproval)

\* The last Intercept call was given a server->host response that carries
\* an id.
LastIsResponseWithID ==
    /\ ta.last.d = DirServerToHost
    /\ ~ta.last.raw.parseErr
    /\ Kind(ta.last.raw) = KindResponse
    /\ ta.last.raw.id # NoID

\* A call that is not handled as a tools/list response returns its input
\* and registers nothing; a handled one removes the entry.
HandlingIsAtomic ==
    /\ ~ta.last.handled =>
          /\ ta.last.res.out = ta.last.raw
          /\ ta.last.res.registered = {}
          /\ ta.last.res.meta = NilMeta
    /\ ta.last.handled => ta.last.raw.id \notin ta.pendingIDs

\* C23 (as claimed): a server->host message is handled as a tools/list
\* response iff it is a response whose id was recorded from an earlier
\* host->server tools/list request and not consumed since; handling removes
\* the entry, and every other message is forwarded unchanged with no tool
\* registered.
C23_HandledIffRecorded ==
    ta.pc = "run" /\ ta.last.d # "" =>
       /\ ta.last.handled <=> (LastIsResponseWithID /\ ta.last.wasOpen)
       /\ HandlingIsAtomic

\* C23 (amended): ... iff it is a response whose id was recorded from an
\* earlier host->server tools/list request, not consumed since and not
\* removed by the janitor (an entry older than five minutes is removed at
\* the janitor's next tick, and a response that arrives later is forwarded
\* unchanged).
C23_HandledIffRecordedAndNotExpired ==
    ta.pc = "run" /\ ta.last.d # "" =>
       /\ ta.last.handled <=>
             (LastIsResponseWithID /\ ta.last.wasOpen /\ ~ta.last.wasSwept)
       /\ HandlingIsAtomic

\* A second response with the id of a tools/list request that was already
\* answered: forwarded, not handled.
C23_Witness ==
    /\ ta.pc = "run"
    /\ LastIsResponseWithID
    /\ ta.last.raw.result.kind = "tools"
    /\ ta.last.raw.result.tools # <<>>
    /\ ~ta.last.handled /\ ~ta.last.wasOpen /\ ~ta.last.wasSwept
    /\ ta.registered # {}
    /\ ta.last.raw.id \notin ta.swept

Range(f) == {f[i] : i \in DOMAIN f}

CountOf(tools, counts, i) ==
    IF tools[i].parses THEN counts[tools[i].name] ELSE 0

\* The K of a set of positions with the highest counts (all of them when
\* there are no more than K).
TopK(tools, counts, from, K) ==
    {S \in SUBSET from :
       /\ Cardinality(S) = IF Cardinality(from) < K
                           THEN Cardinality(from) ELSE K
       /\ \A i \in S, j \in from \ S :
             CountOf(tools, counts, i) >= CountOf(tools, counts, j)}

\* The reference composition of the two filters, on the tools of the
\* response.
ReferenceKept(cfg, tools, counts) ==
    LET always == {i \in DOMAIN tools :
                     tools[i].parses /\ tools[i].name \in cfg.AlwaysKeep}
        first == {i \in DOMAIN tools :
                    cfg.UnusedSessions > 0 =>
                       CountOf(tools, counts, i) >= 1 \/ i \in always}
        rest == first \ always
    IN IF cfg.KeepTopK > 0
       THEN {always \cup S : S \in TopK(tools, counts, rest, cfg.KeepTopK)}
       ELSE {always \cup rest}

\* The same with the filters working on tool names: an element whose name
\* cannot be read passes both filters, and tools of one name stay or go
\* together.
ReferenceKeptByName(cfg, tools, counts) ==
    LET unnamed == {i \in DOMAIN tools : ~tools[i].parses}
        named == DOMAIN tools \ unnamed
        always == {i \in named : tools[i].name \in cfg.AlwaysKeep}
        first == {i \in named :
                    cfg.UnusedSessions > 0 =>
                       CountOf(tools, counts, i) >= 1 \/ i \in always}
        rest == first \ always
        SameName(S) == {i \in rest : \E j \in S : tools[i].name = tools[j].name}
    IN IF cfg.KeepTopK > 0
       THEN {unnamed \cup always \cup SameName(S) :
                S \in TopK(tools, counts, rest, cfg.KeepTopK)}
       ELSE {unnamed \cup always \cup rest}

Rewritten == ta.pc = "run" /\ ta.last.res.out # ta.last.raw

\* C25: in a rewritten tools/list response the envelope id is the original
\* id, every field of result other than tools is unchanged, and each kept
\* tool is the original tool object.
C25_RewritePreserves ==
    Rewritten =>
       LET in == ta.last.raw
           out == ta.last.res.out
           kept == ta.last.res.kept
       IN /\ ~out.parseErr /\ Kind(out) = KindResponse
          /\ out.id = in.id
          /\ out.result.kind = "tools"
          /\ out.result.cursor = in.result.cursor
          /\ Len(out.result.tools) = Len(kept)
          /\ \A k \in 1..Len(kept) : out.result.tools[k] = in.result.tools[kept[k]]
          /\ \A k, l \in 1..Len(kept) : k # l => kept[k] # kept[l]

\* A response with a cursor was rewritten and still lists a tool.
C25_Witness ==
    /\ Rewritten
    /\ ta.last.raw.result.cursor = "c1"
    /\ ta.last.res.out.result.tools # <<>>
    /\ Len(ta.last.res.out.result.tools) < Len(ta.last.raw.result.tools)

\* The bytes change only for a handled response that lost a tool, and
\* exactly then tools_pruned is set, to the number of tools removed.
ChangesOnlyWhenPruned ==
    /\ Rewritten => ta.last.handled /\ Len(ta.last.res.pruned) >= 1
    /\ Rewritten <=> MetaKeyToolsPruned \in DOMAIN ta.last.res.meta
    /\ Rewritten =>
          /\ ta.last.res.meta[MetaKeyToolsPruned] = Len(ta.last.res.pruned)
          /\ Len(ta.last.res.out.result.tools) + Len(ta.last.res.pruned)
                = Len(ta.last.raw.result.tools)

RowsOf(k) ==
    {r \in registry.rows : r.session_id = k[1] /\ r.tool_name = k[2]}

\* C29: tool registration is idempotent per (session_id, tool_name): after
\* any sequence of register_tools calls the registry holds exactly one row
\* for each registered pair, and that row keeps the first_seen and the
\* description of the first registration.
C29_RegistrationIdempotent ==
    registry.pc = "open" =>
       \A k \in RegKeys :
          IF registry.first[k] = NotRegistered
          THEN RowsOf(k) = {}
          ELSE /\ Cardinality(RowsOf(k)) = 1
               /\ \A r \in RowsOf(k) :
                     /\ r.description = registry.first[k].description
                     /\ r.first_seen = registry.first[k].first_seen

\* A pair was registered again, later and with another description, and
\* the call was committed.
C29_Witness ==
    /\ registry.pc = "open"
    /\ registry.last.committed
    /\ \E i \in DOMAIN registry.last.tools :
          \E r \in registry.rows :
             /\ r.session_id = registry.last.session
             /\ r.tool_name = registry.last.tools[i].ToolName
             /\ r.description # registry.last.tools[i].Description
             /\ r.first_seen < registry.clock - 1
             /\ Cardinality(registry.rows) >= 2

\* C27: for every host->server message, and for every message when
\* redaction is disabled, the redactor returns its input bytes, sets no
\* scrub_count and leaves the process-wide total unchanged.
C27_RedactorLeavesHostTraffic ==
    /\ scrubber.pc = "run" /\ scrubber.last.d # ""
    /\ scrubber.last.d = DirHostToServer \/ ~scrubEnabled
    => /\ scrubber.last.out = <<scrubber.last.raw>>
       /\ MetaKeyScrubCount \notin DOMAIN scrubber.last.meta
       /\ scrubber.totalScrubbed = scrubber.last.before

\* With redaction enabled a host->server message holding PII went through
\* after a server->host message had been redacted.
C27_Witness ==
    /\ scrubber.pc = "run"
    /\ scrubEnabled
    /\ scrubber.last.d = DirHostToServer
    /\ scrubber.last.raw.pii > 0
    /\ scrubber.totalScrubbed > 0

\* C28: for a redacted server->host message scrub_count is set iff the
\* match count is greater than zero and then equals it; the process-wide
\* total never decreases and equals the sum of the scrub counts of all
\* messages processed so far.
C28_ScrubCountAndTotal ==
    /\ [](scrubber.pc = "run" /\ scrubber.last.d = DirServerToHost
             /\ scrubEnabled =>
            /\ MetaKeyScrubCount \in DOMAIN scrubber.last.meta
                  <=> scrubber.last.raw.pii > 0
            /\ MetaNumber(scrubber.last.meta, MetaKeyScrubCount)
                  = scrubber.last.raw.pii)
    /\ [](scrubber.pc = "run" =>
            scrubber.totalScrubbed = scrubber.counted)
    /\ [][scrubber.pc = "run" =>
            scrubber'.totalScrubbed >= scrubber.totalScrubbed]_vars

\* Two messages were redacted, the last with two matches.
C28_Witness ==
    /\ scrubber.pc = "run"
    /\ scrubber.last.d = DirServerToHost
    /\ MetaNumber(scrubber.last.meta, MetaKeyScrubCount) = 2
    /\ scrubber.last.before > 0
    /\ scrubber.totalScrubbed = scrubber.last.before + 2

\* The rule matches the evaluated message, condition by condition.
RuleApplies(r) ==
    /\ r.direction = "" \/ r.direction = evIn.direction
    /\ r.methods = {} \/ evIn.method \in r.methods
    /\ r.tools = {} \/ (evIn.toolName # "" /\ evIn.toolName \in r.tools)
    /\ \A p \in r.patterns : p \in evIn.payload.marks

NamesOf(ruleList) == [i \in DOMAIN ruleList |-> ruleList[i].name]

\* C31: matched_rules is the list, in rule-list order, of the names of the
\* rules that match (direction empty or equal, methods empty or containing
\* the method, tools empty or containing a non-empty tool name, every
\* pattern matching the payload); when no rule matches, the action and
\* matched_rules are empty.
C31_MatchedRulesInOrder ==
    evOut.done =>
       /\ evOut.result.MatchedRules = NamesOf(SelectSeq(rules, RuleApplies))
       /\ (\A i \in DOMAIN rules : ~RuleApplies(rules[i]))
             => /\ evOut.result.Action = ActionNone
                /\ evOut.result.MatchedRules = <<>>

\* Of three rules the middle one is for the other direction; the two
\* others match, the second of them by its pattern.
C31_Witness ==
    /\ evOut.done
    /\ Len(rules) = 3
    /\ Len(evOut.result.MatchedRules) = 2
    /\ rules[2].direction \notin {"", evIn.direction}
    /\ rules[3].patterns # {}
    /\ evOut.result.MatchedRules = <<rules[1].name, rules[3].name>>

\* The lines of direction d that the chain blocked and that carry an id.
BlockedWithID(d) ==
    { idx \in DOMAIN outcome[d] :
        /\ outcome[d][idx].res = "blocked"
        /\ inLog[d][idx].id # NoID }

\* C32: when the chain blocks a server->host message that has an id, exactly
\* one synthesized error response is written to child-stdin and nothing is
\* written to host-stdout for that message, in every reachable state of the
\* two pumps.
C32_BlockedServerMessage ==
    \A idx \in BlockedWithID(DirServerToHost) :
        LET back == EntriesBy(childStdin, DirServerToHost, idx)
        IN /\ Len(back) = 1
           /\ back[1].bytes.body = "error_response"
           /\ back[1].bytes.code = InvalidRequest
           /\ back[1].bytes.id = inLog[DirServerToHost][idx].id
           /\ EntriesBy(hostStdout, DirServerToHost, idx) = <<>>

\* The entries of all flush attempts so far, in the order of the attempts.
RECURSIVE Attempted(_)
Attempted(attempts) ==
    IF attempts = <<>> THEN <<>>
    ELSE attempts[1].entries \o Attempted(Tail(attempts))

\* The entries of the attempts that were committed.
RECURSIVE Committed(_)
Committed(attempts) ==
    IF attempts = <<>> THEN <<>>
    ELSE (IF attempts[1].result = "committed" THEN attempts[1].entries
          ELSE <<>>) \o Committed(Tail(attempts))

\* The accepted entries in the order log_message accepted them.
RECURSIVE InEnqueueOrder(_)
InEnqueueOrder(ids) ==
    IF ids = {} THEN <<>>
    ELSE LET first == CHOOSE i \in ids : \A j \in ids : i <= j
         IN <<first>> \o InEnqueueOrder(ids \ {first})

\* C33: each entry accepted by log_message is in exactly one flush attempt,
\* in enqueue order: it is flushed when the batch reaches its size, on a
\* tick or at close, never twice; a failed flush is not retried, its
\* entries are discarded and later batches are still flushed; between
\* events the batch holds fewer entries than its size.
C33_FlushedOnceInOrder ==
    store.pc \in {"open", "closing", "closed"} =>
        /\ Attempted(store.attempts) \o store.batch \o store.writeCh
              = InEnqueueOrder(store.accepted)
        /\ store.writer = "done"
              => Attempted(store.attempts) = InEnqueueOrder(store.accepted)
        /\ \A i \in DOMAIN store.attempts :
              /\ store.attempts[i].entries # <<>>
              /\ store.attempts[i].trigger = "size"
                    <=> Len(store.attempts[i].entries) = batchSize
              /\ store.attempts[i].trigger = "close"
                    => i = Len(store.attempts) /\ store.writer = "done"
        /\ store.rows = Committed(store.attempts)
        /\ Len(store.batch) < batchSize

\* A full batch failed, a later batch was committed on a tick, and the
\* rest was flushed at close.
C33_Witness ==
    /\ store.pc = "closed"
    /\ Len(store.attempts) = 3
    /\ store.attempts[1].trigger = "size"
    /\ store.attempts[1].result = "failed"
    /\ store.attempts[2].trigger = "tick"
    /\ store.attempts[2].result = "committed"
    /\ store.attempts[3].trigger = "close"
    /\ store.rows = store.attempts[2].entries \o store.attempts[3].entries

\* C40: with redaction enabled, a server->host message in which no pattern
\* matches any string leaf leaves the redactor byte-identical to its input
\* and without scrub_count metadata.
C40_NoMatchLeavesBytes ==
    /\ scrubber.pc = "run" /\ scrubEnabled
    /\ scrubber.last.d = DirServerToHost
    /\ scrubber.last.raw.pii = 0
    => /\ scrubber.last.out = <<scrubber.last.raw>>
       /\ MetaKeyScrubCount \notin DOMAIN scrubber.last.meta

\* Line idx of pump d parsed, and some rule with action audit matches it.
MatchesAuditRule(d, idx) ==
    LET msg == InterceptedMessage(d, inLog[d][idx])
    IN /\ ~msg.ParseErr
       /\ \E i \in DOMAIN rules :
             /\ rules[i].action = ActionAudit
             /\ ruleMatches(rules[i], d, msg.Parsed.Method,
                            IF msg.Parsed.Method = "tools/call"
                            THEN ExtractToolName(msg.Parsed.Params) ELSE "",
                            msg.RawBytes)

\* C38: every forwarded message that matched at least one rule with action
\* audit is logged with audit = true, whatever other rules also matched it.
C38_AuditedIsLoggedAudit ==
    \A d \in Directions : \A idx \in DOMAIN outcome[d] :
        outcome[d][idx].res = "forward" /\ MatchesAuditRule(d, idx)
            => /\ LoggedFor(d, idx) # <<>>
               /\ \A k \in DOMAIN LoggedFor(d, idx) :
                     LoggedFor(d, idx)[k].entry.Audit

\* The pending tickets submitted by the pump of direction d.
PendingOf(d) == { id \in pending : tickets[id].Direction = d }

\* C36: a pump does not read its next message until the approval
\* interceptor has returned for the current one: at most one ticket per
\* direction is pending (at most two in all), and while a message awaits
\* approval no later message of its direction is read, evaluated or
\* forwarded.
C36_OnePendingPerDirection ==
    /\ [](\A d \in Directions : Cardinality(PendingOf(d)) <= 1)
    /\ [](Cardinality(pending) <= 2)
    /\ [](\A d \in Directions :
            pump[d] = "await" =>
               /\ cur[d].busy /\ cur[d].idx = Len(inLog[d])
               /\ outcome[d][cur[d].idx].res = "waiting"
               /\ EntriesBy(childStdin, d, cur[d].idx) = <<>>
               /\ EntriesBy(hostStdout, d, cur[d].idx) = <<>>)
    /\ [][\A d \in Directions :
            pump[d] = "await" /\ pump'[d] = "await" =>
               /\ inLog'[d] = inLog[d]
               /\ outcome'[d] = outcome[d]
               /\ logged'[d] = logged[d]
               /\ Forwarded(d)' = Forwarded(d)]_vars

\* Both pumps await approval at once, each with its one ticket pending.
C36_Witness ==
    /\ \A d \in Directions : pump[d] = "await"
    /\ \A d \in Directions : Cardinality(PendingOf(d)) = 1
    /\ Cardinality(pending) = 2

\* C35: no output is lost at subprocess exit: every complete line the child
\* wrote to its stdout before exiting is read and processed by the
\* server->host pump before Run returns.
C35_NoOutputLostAtExit ==
    life.pc \in {"returned", "exited"} /\ life.child \in {"exit0", "exit1"}
        => life.processed = life.written

\* A reply: a message without a method that carries an id, whether it holds
\* a result or a JSON-RPC error.
IsReply(raw) == ~raw.parseErr /\ raw.method = "" /\ raw.id # NoID

\* C37: once the server's reply to a tracked tools/list request, a result
\* or a JSON-RPC error, has passed through the tool-analytics interceptor,
\* the request's id is no longer in pendingIDs.
C37_ReplyRemovesPending ==
    [][ \A raw \in ServerPayloads :
           \A counts \in CountSamples :
              \A storeErr \in {"", "register", "counts"} :
                 /\ IsReply(raw)
                 /\ raw.id \in ta.pendingIDs
                 /\ TAIntercept(DirServerToHost, raw, counts, storeErr)
                 => raw.id \notin ta'.pendingIDs ]_vars

\* A tools/list request that carries an id.
IsListRequest(raw) ==
    ~raw.parseErr /\ raw.method = "tools/list" /\ raw.id # NoID

\* The id is in pendingIDs, or the janitor has removed it.
PendingOrSwept(id) == id \in ta.pendingIDs \/ id \in ta.swept

\* The server's reply to the request has reached the tool-analytics
\* interceptor and been through it.
ReplyWentThrough(id) ==
    /\ \E j \in DOMAIN inLog[DirServerToHost] :
          inLog[DirServerToHost][j].id = id
    /\ ~(pump[DirServerToHost] = "tools" /\ cur[DirServerToHost].raw.id = id)

\* C39: the id of a host->server tools/list request is recorded before the
\* request's bytes are written to child-stdin, so that whenever the server's
\* reply reaches the tool-analytics interceptor the id is pending unless the
\* janitor has removed it; and a request that an earlier interceptor blocked
\* is never recorded.
C39_RecordedBeforeWritten ==
    /\ \A k \in DOMAIN childStdin :
          IsListRequest(childStdin[k]) /\ ~ReplyWentThrough(childStdin[k].id)
             => PendingOrSwept(childStdin[k].id)
    /\ \A k \in DOMAIN inLog[DirHostToServer] :
          /\ IsListRequest(inLog[DirHostToServer][k])
          /\ outcome[DirHostToServer][k] = "blocked"
          => ~PendingOrSwept(inLog[DirHostToServer][k].id)

\* The server's reply to a written tools/list request is at the interceptor
\* and finds the id pending, while the host pump is between the interceptor
\* and its write, and an earlier tools/list request with an id was blocked.
C39_Witness ==
    /\ pump[DirServerToHost] = "tools"
    /\ cur[DirServerToHost].raw.id \in ta.pendingIDs
    /\ \E k \in DOMAIN childStdin :
          /\ IsListRequest(childStdin[k])
          /\ childStdin[k].id = cur[DirServerToHost].raw.id
    /\ pump[DirHostToServer] = "write"
    /\ \E k \in DOMAIN inLog[DirHostToServer] :
          /\ IsListRequest(inLog[DirHostToServer][k])
          /\ outcome[DirHostToServer][k] = "blocked"

\* C34: with redaction enabled, a server->host message written to
\* host-stdout carries the redactor's output: a message with scrub_count > 0
\* never reaches the host with a redacted string restored, also when tool
\* analytics has rebuilt it after pruning.
C34_RedactionSurvivesPruning ==
    \A k \in DOMAIN hostStdout :
       MetaNumber(hostStdout[k].meta, MetaKeyScrubCount) > 0
          => Matches(hostStdout[k].bytes.result.tools) = 0

====
